---------------------------- MODULE Spec2Model ----------------------------
(***************************************************************************)
(* Verification model of parts of ceres-solver:                            *)
(*   - ConjugateGradientsSolver  (conjugate_gradients_solver.h)            *)
(*   - ProgramEvaluator::Evaluate (program_evaluator.h)                    *)
(*   - DenseQR / SparseCholesky FactorAndSolve                             *)
(*                                                                         *)
(* Floating point values are modelled as extended rationals: a pair        *)
(* <<n, d>> with d > 0 is the finite value n/d (kept in lowest terms),     *)
(* <<1, 0>> is +infinity, <<-1, 0>> is -infinity and <<0, 0>> is NaN.      *)
(* Finite arithmetic is exact; a finite result whose magnitude exceeds     *)
(* MaxFinite overflows to an infinity, as IEEE-754 arithmetic does.        *)
(***************************************************************************)
EXTENDS Integers, Sequences, FiniteSets, TLC

(***************************************************************************)
(* Bounds of the model.                                                    *)
(***************************************************************************)
\* largest finite magnitude of the modelled floating point format
MaxFinite == 8
\* options.max_num_iterations ranges over 0 .. MaxIterationsOption
MaxIterationsOption == 2
\* options.min_num_iterations ranges over 0 .. MaxMinIterationsOption
MaxMinIterationsOption == 2
\* options_.num_threads of a ProgramEvaluator ranges over 1 .. NumThreads
NumThreads == 2
\* number of Evaluate calls made on one ProgramEvaluator
MaxEvaluateCalls == 2
\* the number of significant bits of the numbers ProgramEvaluator adds
MantissaBits == 4
\* number of FactorAndSolve calls made on one solver object
MaxFactorAndSolveCalls == 3
\* number of SolveImpl calls made on one CGNR solver
MaxSolveImplCalls == 3
\* largest value of Solver::Options::max_num_iterations
MaxNumIterations == 2
\* largest value of the maximum number of consecutive rejected steps
MaxConsecutiveRejections == 2
\* largest value of the maximum number of power series iterations
MaxSpseIterations == 4
\* number of Plus calls made on one ProgramEvaluator
MaxPlusCalls == 2
\* number of SolveImpl calls made on one DenseQRSolver
MaxDenseQRCalls == 2
\* the matrices handed to a DenseQRSolver have 1 .. MaxNumRows rows
MaxNumRows == 3
\* and 1 .. MaxNumCols columns
MaxNumCols == 2
\* number of Factorize calls made on one MKLSparseCholesky
MaxFactorizeCalls == 3

(***************************************************************************)
(* Extended rational arithmetic (IEEE-754 double, without rounding).       *)
(***************************************************************************)
Abs(n) == IF n < 0 THEN -n ELSE n

Sign(n) == IF n < 0 THEN -1 ELSE IF n > 0 THEN 1 ELSE 0

RECURSIVE GCD(_, _)
GCD(a, b) == IF b = 0 THEN a ELSE GCD(b, a % b)

NaN == <<0, 0>>
PosInf == <<1, 0>>
NegInf == <<-1, 0>>
Zero == <<0, 1>>
One == <<1, 1>>

IsNaN(x) == x = NaN
IsInf(x) == x = PosInf \/ x = NegInf
IsFinite(x) == x[2] > 0

\* the value n/d (d > 0) as a double: lowest terms, overflow to infinity
Num(n, d) ==
  IF (Abs(n) \div d > MaxFinite)
       \/ (Abs(n) \div d = MaxFinite /\ Abs(n) % d # 0)
    THEN <<Sign(n), 0>>
    ELSE LET g == GCD(Abs(n), d) IN <<n \div g, d \div g>>

FromInt(n) == Num(n, 1)

Neg(x) == <<-x[1], x[2]>>

\* x + y, over the least common denominator
Add(x, y) ==
  IF IsNaN(x) \/ IsNaN(y) THEN NaN
  ELSE IF IsInf(x) /\ IsInf(y) THEN (IF x = y THEN x ELSE NaN)
  ELSE IF IsInf(x) THEN x
  ELSE IF IsInf(y) THEN y
  ELSE LET g == GCD(x[2], y[2])
       IN Num(x[1] * (y[2] \div g) + y[1] * (x[2] \div g),
              (x[2] \div g) * y[2])

Sub(x, y) == Add(x, Neg(y))

\* x * y, cancelling common factors before multiplying
Mul(x, y) ==
  IF IsNaN(x) \/ IsNaN(y) THEN NaN
  ELSE IF IsInf(x) \/ IsInf(y)
    THEN (IF x[1] = 0 \/ y[1] = 0 THEN NaN ELSE <<Sign(x[1]) * Sign(y[1]), 0>>)
  ELSE LET g1 == GCD(Abs(x[1]), y[2])
           g2 == GCD(Abs(y[1]), x[2])
       IN Num((x[1] \div g1) * (y[1] \div g2),
              (x[2] \div g2) * (y[2] \div g1))

\* x / y; the sign of a zero divisor is taken as positive
Div(x, y) ==
  IF IsNaN(x) \/ IsNaN(y) THEN NaN
  ELSE IF IsInf(x) THEN (IF IsInf(y) THEN NaN
                         ELSE IF y[1] < 0 THEN Neg(x) ELSE x)
  ELSE IF IsInf(y) THEN Zero
  ELSE IF y[1] = 0 THEN (IF x[1] = 0 THEN NaN ELSE <<Sign(x[1]), 0>>)
  ELSE Mul(x, <<Sign(y[1]) * y[2], Abs(y[1])>>)

\* n1/d1 <= n2/d2 for d1, d2 > 0, by comparing the continued fractions
\* (no product is formed, so that large denominators do no harm)
RECURSIVE FractionLeq(_, _, _, _)
FractionLeq(n1, d1, n2, d2) ==
  LET f1 == n1 \div d1
      f2 == n2 \div d2
      r1 == n1 % d1
      r2 == n2 % d2
  IN IF f1 # f2 THEN f1 < f2
     ELSE IF r1 = 0 THEN TRUE
     ELSE IF r2 = 0 THEN FALSE
     ELSE FractionLeq(d2, r2, d1, r1)

\* comparisons are false as soon as an operand is NaN
Leq(x, y) ==
  /\ ~IsNaN(x) /\ ~IsNaN(y)
  /\ IF IsInf(x) \/ IsInf(y)
       THEN x = y \/ x = NegInf \/ y = PosInf
       ELSE FractionLeq(x[1], x[2], y[1], y[2])

Lt(x, y) ==
  /\ ~IsNaN(x) /\ ~IsNaN(y)
  /\ x # y
  /\ Leq(x, y)

(***************************************************************************)
(* Dense vectors and linear operators (Eigen vectors, LinearOperator).     *)
(***************************************************************************)
RECURSIVE SumSeq(_)
SumSeq(s) == IF s = <<>> THEN Zero ELSE Add(Head(s), SumSeq(Tail(s)))

Dot(u, v) == SumSeq([i \in 1..Len(u) |-> Mul(u[i], v[i])])

VecAdd(u, v) == [i \in 1..Len(u) |-> Add(u[i], v[i])]

VecSub(u, v) == [i \in 1..Len(u) |-> Sub(u[i], v[i])]

Scale(a, v) == [i \in 1..Len(v) |-> Mul(a, v[i])]

SetZero(v) == [i \in 1..Len(v) |-> Zero]

\* squared Euclidean norm; v.norm() is its square root
SquaredNorm(v) == Dot(v, v)

\* op.RightMultiply(x, y): y += op * x, op given by its rows
RightMultiply(op, x, y) == [i \in 1..Len(y) |-> Add(y[i], Dot(op[i], x))]


(***************************************************************************)
(* State.                                                                  *)
(***************************************************************************)
VARIABLES
  \* ---- ConjugateGradientsSolver: arguments
  options,          \* ConjugateGradientsSolverOptions
  lhs,              \* the operator lhs, as a matrix given by its rows
  preconditioner,   \* the operator preconditioner, likewise
  rhs,
  solution,
  \* ---- ConjugateGradientsSolver: locals
  p, r, rho, Q0,
  summary,          \* LinearSolver::Summary
  cg_pc,            \* "entry", "loop" (at the head of the for loop), "returned"
  \* ---- ConjugateGradientsSolver: observation of the run
  solution_in,      \* content of solution when the function was called
  num_multiplies,   \* number of lhs / preconditioner RightMultiply calls made
  last,             \* scalars computed by the most recent loop iteration
  \* ---- ProgramEvaluator: the object
  num_threads,      \* options_.num_threads
  evaluate_scratch, \* per thread: [cost, gradient]
  \* ---- ProgramEvaluator::Evaluate: arguments and the caller's buffers
  call,             \* state, what is requested, which cost functions fail
  cost, residuals, gradient, jacobian,
  \* ---- ProgramEvaluator::Evaluate: locals and position
  abort,
  todo,             \* loop iterations not yet handed to a thread
  thread_block,     \* per thread: the iteration it is in, 0 when in none
  thread_last,      \* per thread: the last iteration handed to it, 0 if none
  ev_pc,            \* "idle", "parallel", "returned"
  ev_result,        \* the value returned
  \* ---- ProgramEvaluator: observation of the run
  num_calls,
  invoked,          \* residual blocks whose Evaluate was invoked in this call
  evaluated,        \* per thread: the residual blocks whose results it stored
                    \* in this call, in the order in which it stored them
  \* ---- DenseQR / SparseCholesky / RefinedSparseCholesky
  fs_kind,          \* the class of the object FactorAndSolve is called on
  fs_method,        \* the method of the object that was called last
  fs_pc,            \* "idle", "factorize", "solve", "refine", "returned"
  fs_termination_type, \* local of FactorAndSolve: the latest termination type
  fs_result,        \* the value FactorAndSolve returned
  fs_log,           \* the calls of the implementation and of the refiner
                    \* made in the current call, and what each returned
  fs_calls,         \* number of calls made on the object
  \* ---- CgnrSolver / CudaCgnrSolver
  cgnr_kind,        \* the class: "CgnrSolver", "CudaCgnrSolver", "none" before
  cgnr_pc,          \* "none", "constructed", "aborted" (LOG(FATAL)) or
                    \* "nullptr" (Create returned nullptr)
  cgnr_options,     \* options_ of the solver
  cgnr_error,       \* *error of CudaCgnrSolver::Create
  cgnr_preconditioner, \* preconditioner_ / the preconditioner of the last solve
  cgnr_summaries,   \* the termination type of each SolveImpl call made
  cgnr_calls,       \* for each SolveImpl call, the calls it made in order
  \* ---- Solve with the trust-region minimizer
  tr_problem,       \* the problem: its parameter blocks and residual blocks
  tr_failing,       \* the values of x at which the cost function returns false
  tr_options,       \* Solver::Options
  tr_x,             \* the user's parameter blocks
  tr_x_initial,     \* their values when Solve was called
  tr_cost,          \* cost at the current point
  tr_candidate,     \* the candidate point x + delta
  tr_pc,            \* "start", "iteration_zero", "compute_step",
                    \* "evaluate_candidate", "check_terminal",
                    \* "evaluate_current", "terminated"
  tr_num_consecutive_rejections,
  tr_radius,        \* the radius of the trust region
  tr_iteration,     \* number of accepted iterations
  tr_summary,       \* Solver::Summary
  tr_events,        \* the evaluation callback invocations and the cost
                    \* function Evaluate calls made, in order
  tr_last_step,     \* what the most recent step proposal came to
  \* ---- PowerSeriesExpansionPreconditioner
  ps_options,       \* options_: tolerance, minimum and maximum iterations
  ps_operator,      \* the operator of the power series of s_
  ps_x, ps_y,       \* the arguments of RightMultiply
  b_init,           \* the first term of the series
  b_temp,           \* the term computed last
  b_temp_previous,  \* the term before it
  ps_i,             \* the loop counter: the number of terms added after b_init
  ps_pc,            \* "entry", "loop", "returned"
  ps_below,         \* for each term added: was it below the threshold
  \* ---- ProgramEvaluator::Plus with optimize_e_blocks
  pl_program,       \* program_: block sizes and residual blocks
  pl_options,       \* options_: optimize_e_blocks, num_eliminate_blocks
  pl_blocks,        \* the parameter blocks: index, delta_offset, constancy
  pl_before,        \* the parameter blocks when the current call began
  pl_pc,            \* "idle", "loop", "solving", "returned", "aborted"
                    \* (CHECK_GE failed), "crashed" (read past the end)
  pl_i,             \* the loop counter of the inner solves
  residual_blocks_per_e_block,
  start_residual_blocks,
  start_parameter_block,
  old_index,
  old_delta_offset,
  pl_inner,         \* the inner programs solved by the current call
  pl_result,        \* what the last call returned
  pl_calls,         \* number of Plus calls made
  \* ---- DenseQRSolver
  qr_rhs,           \* rhs_, kept from one call to the next
  qr_last,          \* the arguments of the last SolveImpl call and the
                    \* size of the system handed to the QR solve
  qr_summary,       \* the termination type the last call returned
  qr_calls,         \* number of SolveImpl calls made
  \* ---- MKLSparseCholesky and its MKLPardiso
  mkl_lhs,          \* the matrix of the calls: per row its columns, from 0
  analyzed_,        \* MKLSparseCholesky::analyzed_
  permutation_,     \* MKLPardiso: the remap table, pairs <<from, num>>
  rows_out_,        \* MKLPardiso: the row offsets of the output structure
  cols_out_,        \* MKLPardiso: the columns of the output structure
  num_nonzeros_,    \* MKLPardiso: the number of values handed to pardiso
  requires_remap_,  \* MKLPardiso: the values are copied by the table
  values_prem_,     \* MKLPardiso: the remapped values
  mkl_outside,      \* values the last remap wrote past the end of
                    \* values_prem_
  mkl_calls,        \* for each Factorize call what it ran and returned
  mkl_pc            \* "ready", or "crashed" after a write past the end

cg_vars == <<options, lhs, preconditioner, rhs, solution, p, r, rho, Q0,
             summary, cg_pc, solution_in, num_multiplies, last>>

ev_vars == <<num_threads, evaluate_scratch, call, cost, residuals, gradient,
             jacobian, abort, todo, thread_block, thread_last, ev_pc,
             ev_result, num_calls, invoked, evaluated>>

fs_vars == <<fs_kind, fs_method, fs_pc, fs_termination_type, fs_result, fs_log,
             fs_calls>>

cgnr_vars == <<cgnr_kind, cgnr_pc, cgnr_options, cgnr_error,
               cgnr_preconditioner, cgnr_summaries, cgnr_calls>>

tr_vars == <<tr_problem, tr_failing, tr_options, tr_x, tr_x_initial, tr_cost,
             tr_candidate, tr_pc, tr_num_consecutive_rejections,
             tr_radius, tr_iteration,
             tr_summary, tr_events, tr_last_step>>

ps_vars == <<ps_options, ps_operator, ps_x, ps_y, b_init, b_temp,
             b_temp_previous, ps_i, ps_pc, ps_below>>

pl_vars == <<pl_program, pl_options, pl_blocks, pl_before, pl_pc, pl_i,
             residual_blocks_per_e_block, start_residual_blocks,
             start_parameter_block, old_index, old_delta_offset, pl_inner,
             pl_result, pl_calls>>

qr_vars == <<qr_rhs, qr_last, qr_summary, qr_calls>>

mkl_vars == <<mkl_lhs, analyzed_, permutation_, rows_out_, cols_out_,
              num_nonzeros_, requires_remap_, values_prem_, mkl_outside,
              mkl_calls, mkl_pc>>

vars == <<cg_vars, ev_vars, fs_vars, cgnr_vars, tr_vars, ps_vars, pl_vars,
          qr_vars, mkl_vars>>

\* what a specification of one part leaves alone
not_cg_vars == <<ev_vars, fs_vars, cgnr_vars, tr_vars, ps_vars, pl_vars,
                 qr_vars, mkl_vars>>
not_ev_vars == <<cg_vars, fs_vars, cgnr_vars, tr_vars, ps_vars, pl_vars,
                 qr_vars, mkl_vars>>
not_fs_vars == <<cg_vars, ev_vars, cgnr_vars, tr_vars, ps_vars, pl_vars,
                 qr_vars, mkl_vars>>
not_cgnr_vars == <<cg_vars, ev_vars, fs_vars, tr_vars, ps_vars, pl_vars,
                   qr_vars, mkl_vars>>
not_tr_vars == <<cg_vars, ev_vars, fs_vars, cgnr_vars, ps_vars, pl_vars,
                 qr_vars, mkl_vars>>
not_ps_vars == <<cg_vars, ev_vars, fs_vars, cgnr_vars, tr_vars, pl_vars,
                 qr_vars, mkl_vars>>
not_pl_vars == <<cg_vars, ev_vars, fs_vars, cgnr_vars, tr_vars, ps_vars,
                 qr_vars, mkl_vars>>
not_qr_vars == <<cg_vars, ev_vars, fs_vars, cgnr_vars, tr_vars, ps_vars,
                 pl_vars, mkl_vars>>
not_mkl_vars == <<cg_vars, ev_vars, fs_vars, cgnr_vars, tr_vars, ps_vars,
                  pl_vars, qr_vars>>

(***************************************************************************)
(* ConjugateGradientsSolver (conjugate_gradients_solver.h).                *)
(***************************************************************************)
\* marks a scalar that an iteration did not get to compute
NotComputed == <<0, -1>>

NoIteration ==
  [rho |-> NotComputed, beta |-> NotComputed, pq |-> NotComputed,
   alpha |-> NotComputed, zeta |-> NotComputed, reset |-> FALSE,
   n |-> 0, solution_before |-> <<>>, exit |-> "none"]

IsZeroOrInfinityNoInf(x) == x = Zero

IsZeroOrInfinity(x) == (x = Zero) \/ IsInf(x)

IsIndefiniteStrict(pq) == Lt(pq, Zero) \/ IsInf(pq)

\* (pq <= 0) || std::isinf(pq)
IsIndefinite(pq) == Leq(pq, Zero) \/ IsInf(pq)

MinIterationsIgnored(num_iterations, min_num_iterations) == TRUE

\* summary.num_iterations >= options.min_num_iterations
MinIterationsReached(num_iterations, min_num_iterations) ==
  num_iterations >= min_num_iterations

MaxIterationsReachedLate(num_iterations, max_num_iterations) ==
  num_iterations > max_num_iterations

\* summary.num_iterations >= options.max_num_iterations
MaxIterationsReached(num_iterations, max_num_iterations) ==
  num_iterations >= max_num_iterations

InitialSummaryFailure ==
  [termination_type |-> "FAILURE",
   message |-> "Maximum number of iterations reached.",
   num_iterations |-> 0]

\* the summary as set up before anything is computed
InitialSummary ==
  [termination_type |-> "NO_CONVERGENCE",
   message |-> "Maximum number of iterations reached.",
   num_iterations |-> 0]

ZeroRhsSolutionKept(x) == x

\* solution.setZero() of the |b| = 0 case
ZeroRhsSolution(x) == SetZero(x)

\* norm_r <= tol_r with tol_r = r_tolerance * norm_b, r_tolerance >= 0,
\* compared through the squares of the two norms
ResidualTest(res, b, r_tolerance) ==
  Leq(SquaredNorm(res), Mul(Mul(r_tolerance, r_tolerance), SquaredNorm(b)))

\* r = rhs - lhs * x, through tmp
TrueResidual(A, b, x) == VecSub(b, RightMultiply(A, x, SetZero(b)))

IncrementalResidualWrongSign(res, alpha, q) == VecAdd(res, Scale(alpha, q))

\* r = r - alpha * q
IncrementalResidual(res, alpha, q) == VecSub(res, Scale(alpha, q))

UpdateSolutionWrongSign(x, alpha, dir) == VecSub(x, Scale(alpha, dir))

\* solution = solution + alpha * p
UpdateSolution(x, alpha, dir) == VecAdd(x, Scale(alpha, dir))

\* Q = -1.0 * solution.dot(rhs + r)
QuadraticModel(x, b, res) == Mul(FromInt(-1), Dot(x, VecAdd(b, res)))

\* Lines 95-137: the part of the function before the loop.
CGEnter ==
  /\ cg_pc = "entry"
  /\ UNCHANGED <<options, lhs, preconditioner, rhs, solution_in, p, rho, last>>
  /\ IF SquaredNorm(rhs) = Zero
       THEN /\ solution' = ZeroRhsSolution(solution)
            /\ summary' = [InitialSummary EXCEPT
                             !.termination_type = "SUCCESS",
                             !.message = "Convergence. |b| = 0."]
            /\ cg_pc' = "returned"
            /\ UNCHANGED <<r, Q0, num_multiplies>>
       ELSE LET r0 == TrueResidual(lhs, rhs, solution) IN
            /\ r' = r0
            /\ num_multiplies' = num_multiplies + 1
            /\ UNCHANGED solution
            /\ IF options.min_num_iterations = 0
                    /\ ResidualTest(r0, rhs, options.r_tolerance)
                 THEN /\ summary' = [InitialSummary EXCEPT
                                       !.termination_type = "SUCCESS",
                                       !.message = "Convergence. |r| <= tol_r"]
                      /\ cg_pc' = "returned"
                      /\ UNCHANGED Q0
                 ELSE /\ summary' = [InitialSummary EXCEPT !.num_iterations = 1]
                      /\ Q0' = QuadraticModel(solution, rhs, r0)
                      /\ cg_pc' = "loop"

\* The assignments a pass through the loop body ends with: the locals, the
\* summary, and either the ++ of the for statement or the return.
CGAssign(leave, termination_type, message, x1, r1, p1, rho1, Q1, mult, d) ==
  /\ solution' = x1
  /\ r' = r1
  /\ p' = p1
  /\ rho' = rho1
  /\ Q0' = Q1
  /\ last' = d
  /\ num_multiplies' = num_multiplies + mult
  /\ summary' = [termination_type |-> termination_type,
                 message |-> message,
                 num_iterations |-> IF leave THEN summary.num_iterations
                                             ELSE summary.num_iterations + 1]
  /\ cg_pc' = IF leave THEN "returned" ELSE "loop"

\* (a loop that goes on with an infinite alpha)
AlphaIsInfiniteIgnored(alpha) == FALSE

\* std::isinf(alpha)
AlphaIsInfinite(alpha) == IsInf(alpha)

\* (a loop that recomputes the residual one iteration late)
ResidualIsResetLate(n, period) == n % period = 1 % period

\* summary.num_iterations % options.residual_reset_period == 0
ResidualIsReset(n, period) == n % period = 0

\* Lines 139-267: one iteration of the for loop.
CGIterate ==
  /\ cg_pc = "loop"
  /\ UNCHANGED <<options, lhs, preconditioner, rhs, solution_in>>
  /\ \E n \in {summary.num_iterations} :
     \E z \in {RightMultiply(preconditioner, r, SetZero(r))} :
     \E rho1 \in {Dot(r, z)} :
     \E d1 \in {[NoIteration EXCEPT !.solution_before = solution,
                                    !.n = n, !.rho = rho1]} :
       IF IsZeroOrInfinity(rho1)
         THEN CGAssign(TRUE, "FAILURE", "Numerical failure. rho = r'z",
                       solution, r, p, rho1, Q0, 1,
                       [d1 EXCEPT !.exit = "rho"])
       ELSE
     \E beta \in {IF n = 1 THEN NotComputed ELSE Div(rho1, rho)} :
     \E d2 \in {[d1 EXCEPT !.beta = beta]} :
       IF n # 1 /\ IsZeroOrInfinity(beta)
         THEN CGAssign(TRUE, "FAILURE",
                       "Numerical failure. beta = rho_n / rho_{n-1}",
                       solution, r, p, rho1, Q0, 1,
                       [d2 EXCEPT !.exit = "beta"])
       ELSE
     \E p1 \in {IF n = 1 THEN z ELSE VecAdd(z, Scale(beta, p))} :
     \E q \in {RightMultiply(lhs, p1, SetZero(z))} :
     \E pq \in {Dot(p1, q)} :
     \E d3 \in {[d2 EXCEPT !.pq = pq]} :
       IF IsIndefinite(pq)
         THEN CGAssign(TRUE, "NO_CONVERGENCE",
                       "Matrix is indefinite, no more progress can be made.",
                       solution, r, p1, rho1, Q0, 2,
                       [d3 EXCEPT !.exit = "indefinite"])
       ELSE
     \E alpha \in {Div(rho1, pq)} :
     \E d4 \in {[d3 EXCEPT !.alpha = alpha]} :
       IF AlphaIsInfinite(alpha)
         THEN CGAssign(TRUE, "FAILURE", "Numerical failure. alpha = rho / pq",
                       solution, r, p1, rho1, Q0, 2,
                       [d4 EXCEPT !.exit = "alpha"])
       ELSE
     \E x1 \in {UpdateSolution(solution, alpha, p1)} :
     \E reset \in {ResidualIsReset(n, options.residual_reset_period)} :
     \E r1 \in {IF reset THEN TrueResidual(lhs, rhs, x1)
                         ELSE IncrementalResidual(r, alpha, q)} :
     \E Q1 \in {QuadraticModel(x1, rhs, r1)} :
     \E zeta \in {Div(Mul(FromInt(n), Sub(Q1, Q0)), Q1)} :
     \E d5 \in {[d4 EXCEPT !.zeta = zeta, !.reset = reset]} :
     \E mult \in {IF reset THEN 3 ELSE 2} :
       IF Lt(zeta, options.q_tolerance)
            /\ MinIterationsReached(n, options.min_num_iterations)
         THEN CGAssign(TRUE, "SUCCESS", "Convergence: zeta < q_tolerance",
                       x1, r1, p1, rho1, Q0, mult,
                       [d5 EXCEPT !.exit = "zeta"])
       ELSE IF ResidualTest(r1, rhs, options.r_tolerance)
            /\ MinIterationsReached(n, options.min_num_iterations)
         THEN CGAssign(TRUE, "SUCCESS", "Convergence. |r| <= tol_r",
                       x1, r1, p1, rho1, Q1, mult,
                       [d5 EXCEPT !.exit = "residual"])
       ELSE IF MaxIterationsReached(n, options.max_num_iterations)
         THEN CGAssign(TRUE, summary.termination_type, summary.message,
                       x1, r1, p1, rho1, Q1, mult,
                       [d5 EXCEPT !.exit = "max"])
       ELSE CGAssign(FALSE, summary.termination_type, summary.message,
                     x1, r1, p1, rho1, Q1, mult, d5)

(***************************************************************************)
(* Inputs of ConjugateGradientsSolver.                                     *)
(***************************************************************************)
LhsDiagonalEntries == {FromInt(-1), One, FromInt(2), PosInf}
LhsOffDiagonalEntries == {Zero, One}

\* symmetric 2 x 2 operators: positive definite, indefinite, non-finite
LhsOperators ==
  {<<<<a, b>>, <<b, c>>>> : a \in LhsDiagonalEntries,
                            b \in LhsOffDiagonalEntries,
                            c \in LhsDiagonalEntries \cup {Zero}}

\* the identity and an indefinite preconditioner
Preconditioners ==
  {<<<<One, Zero>>, <<Zero, One>>>>,
   <<<<One, Zero>>, <<Zero, FromInt(-1)>>>>}

\* badly scaled preconditioners, which drive beta and alpha out of range
BadlyScaledPreconditioners ==
  {<<<<Num(1, 8), Zero>>, <<Zero, FromInt(2)>>>>,
   <<<<Num(1, 16), Zero>>, <<Zero, FromInt(2)>>>>}

RhsVectors == {<<Zero, Zero>>, <<One, Zero>>, <<One, FromInt(2)>>}

InitialSolutions == {<<Zero, Zero>>, <<One, One>>}

\* the arguments (lhs, preconditioner, rhs, solution) of the modelled calls
Arguments ==
  (LhsOperators \X Preconditioners \X RhsVectors \X InitialSolutions)
  \cup (LhsOperators \X BadlyScaledPreconditioners
                     \X {<<One, Zero>>} \X {<<Zero, Zero>>})

Tolerances ==
  {[r |-> Zero, q |-> Zero],
   [r |-> Num(1, 2), q |-> Zero],
   [r |-> Zero, q |-> Num(1, 10)]}

ResetPeriods == {1, 2, 3}

OptionsSet ==
  {[min_num_iterations |-> mn, max_num_iterations |-> mx,
    residual_reset_period |-> rp, r_tolerance |-> t.r, q_tolerance |-> t.q] :
     mn \in 0..MaxMinIterationsOption, mx \in 0..MaxIterationsOption,
     rp \in ResetPeriods, t \in Tolerances}

CGInit ==
  /\ options \in OptionsSet
  /\ \E a \in Arguments :
       /\ lhs = a[1]
       /\ preconditioner = a[2]
       /\ rhs = a[3]
       /\ solution = a[4]
  /\ solution_in = solution
  /\ p = <<Zero, Zero>>
  /\ r = <<Zero, Zero>>
  /\ rho = One
  /\ Q0 = Zero
  /\ summary = InitialSummary
  /\ cg_pc = "entry"
  /\ num_multiplies = 0
  /\ last = NoIteration

\* the state of a solver that is never called
CGIdle ==
  /\ options = [min_num_iterations |-> 0, max_num_iterations |-> 0,
                residual_reset_period |-> 1, r_tolerance |-> Zero,
                q_tolerance |-> Zero]
  /\ lhs = <<>> /\ preconditioner = <<>> /\ rhs = <<>> /\ solution = <<>>
  /\ solution_in = <<>> /\ p = <<>> /\ r = <<>>
  /\ rho = One /\ Q0 = Zero
  /\ summary = InitialSummary
  /\ cg_pc = "unused"
  /\ num_multiplies = 0
  /\ last = NoIteration

(***************************************************************************)
(* The arithmetic of ProgramEvaluator: the values are integers (costs in   *)
(* units of 1/2) and every addition rounds its result to MantissaBits      *)
(* significant bits, to nearest, ties to even, as an addition of doubles   *)
(* rounds to 53.                                                           *)
(***************************************************************************)
RECURSIVE Pow2(_)
Pow2(n) == IF n = 0 THEN 1 ELSE 2 * Pow2(n - 1)

\* the unit in the last place of the rounded value of a magnitude m
RECURSIVE Ulp(_)
Ulp(m) == IF m < Pow2(MantissaBits) THEN 1 ELSE 2 * Ulp(m \div 2)

Round(x) ==
  LET m == Abs(x)
      u == Ulp(m)
      q == m \div u
      rem == m % u
      up == (2 * rem > u) \/ (2 * rem = u /\ q % 2 = 1)
  IN Sign(x) * (IF up THEN q + 1 ELSE q) * u

\* a + b of two doubles
FlAdd(a, b) == Round(a + b)

\* acc += s[1]; acc += s[2]; ...
RECURSIVE FlSum(_, _)
FlSum(acc, s) == IF s = <<>> THEN acc ELSE FlSum(FlAdd(acc, Head(s)), Tail(s))

RECURSIVE SumInts(_)
SumInts(s) == IF s = <<>> THEN 0 ELSE Head(s) + SumInts(Tail(s))

(***************************************************************************)
(* The program evaluated by ProgramEvaluator: three parameter blocks of    *)
(* size 1 (the third one constant) and three residual blocks with linear   *)
(* cost functions, residual = jacobian * parameters + offset.              *)
(***************************************************************************)
ParameterBlocks ==
  <<[is_constant |-> FALSE, delta_offset |-> 0],
    [is_constant |-> FALSE, delta_offset |-> 1],
    [is_constant |-> TRUE, delta_offset |-> 0]>>

\* program_->NumEffectiveParameters()
NumEffectiveParameters == Cardinality({j \in 1..Len(ParameterBlocks) :
                                         ~ParameterBlocks[j].is_constant})

ResidualBlocks ==
  <<[parameter_blocks |-> <<1>>,
     jacobians |-> <<<<1>>>>, offset |-> <<0>>],
    [parameter_blocks |-> <<1, 2>>,
     jacobians |-> <<<<1, 1>>, <<0, 3>>>>, offset |-> <<-1, 1>>],
    [parameter_blocks |-> <<2, 3>>,
     jacobians |-> <<<<1, 2>>>>, offset |-> <<2>>]>>

\* program_->NumResidualBlocks()
NumResidualBlocks == Len(ResidualBlocks)

BlockIds == 1..NumResidualBlocks

\* residual_block->NumResiduals()
NumResidualsOf(i) == Len(ResidualBlocks[i].offset)

\* residual_block->NumParameterBlocks()
NumParameterBlocksOf(i) == Len(ResidualBlocks[i].parameter_blocks)

\* program_->NumResiduals()
NumResiduals == SumInts([i \in BlockIds |-> NumResidualsOf(i)])

ResidualLayoutByIndex(i) == i - 1

\* BuildResidualLayout: residual_layout_[i] is the number of residuals of the
\* residual blocks before block i
ResidualLayout(i) == SumInts([m \in 1..(i - 1) |-> NumResidualsOf(m)])

\* the residuals a cost function computes for its block at a state
BlockResiduals(i, state) ==
  LET b == ResidualBlocks[i] IN
  [k \in 1..NumResidualsOf(i) |->
     SumInts([j \in 1..NumParameterBlocksOf(i) |->
                b.jacobians[k][j] * state[b.parameter_blocks[j]]])
     + b.offset[k]]

\* block_cost of ResidualBlock::Evaluate, in units of 1/2: the squared norm
\* of the block's residuals
BlockCost(i, state) ==
  LET res == BlockResiduals(i, state) IN
  FlSum(0, [k \in 1..Len(res) |-> res[k] * res[k]])

\* block_residual.transpose() * block_jacobian for parameter block j of
\* residual block i (a block of local size 1)
BlockGradient(i, j, state) ==
  LET res == BlockResiduals(i, state) IN
  FlSum(0, [k \in 1..Len(res) |-> res[k] * ResidualBlocks[i].jacobians[k][j]])

ZeroVector(n) == [k \in 1..n |-> 0]

\* lines 213-227: the loop over the parameter blocks j, j+1, ... of residual
\* block i, accumulating into a scratch gradient g (constant parameter blocks
\* are skipped)
RECURSIVE AccumulateGradientFrom(_, _, _, _)
AccumulateGradientFrom(g, i, j, state) ==
  IF j > NumParameterBlocksOf(i) THEN g
  ELSE LET parameter_block == ParameterBlocks[ResidualBlocks[i].parameter_blocks[j]]
           at == parameter_block.delta_offset + 1
       IN IF parameter_block.is_constant
            THEN AccumulateGradientFrom(g, i, j + 1, state)
            ELSE AccumulateGradientFrom(
                   [g EXCEPT ![at] = FlAdd(@, BlockGradient(i, j, state))],
                   i, j + 1, state)

AccumulateGradient(g, i, state) == AccumulateGradientFrom(g, i, 1, state)

\* residuals + residual_layout_[i]: block i's residuals stored in the
\* caller's residual array
WriteResiduals(res, i, state) ==
  LET mine == BlockResiduals(i, state)
      at == ResidualLayout(i)
  IN [k \in 1..Len(res) |->
        IF k > at /\ k <= at + Len(mine) THEN mine[k - at] ELSE res[k]]

\* jacobian_writer_.Write(i, residual_layout_[i], block_jacobians, jacobian):
\* the block Jacobians of the varying parameter blocks stored in the rows of
\* block i, in the columns of each parameter block
WriteJacobian(jac, i) ==
  LET b == ResidualBlocks[i]
      at == ResidualLayout(i)
      Entry(k, c, old) ==
        LET js == {j \in 1..NumParameterBlocksOf(i) :
                     /\ ~ParameterBlocks[b.parameter_blocks[j]].is_constant
                     /\ ParameterBlocks[b.parameter_blocks[j]].delta_offset + 1 = c}
        IN IF js = {} THEN old
           ELSE b.jacobians[k][CHOOSE j \in js : TRUE]
  IN [k \in 1..Len(jac) |->
        IF k > at /\ k <= at + NumResidualsOf(i)
          THEN [c \in 1..Len(jac[k]) |-> Entry(k - at, c, jac[k][c])]
          ELSE jac[k]]

ZeroJacobian == [k \in 1..NumResiduals |-> ZeroVector(NumEffectiveParameters)]

\* CreateEvaluatorScratch and EvaluateScratch::Init: one scratch per thread,
\* its gradient zeroed, its cost not set
FreshScratch(n) ==
  [t \in 1..n |-> [cost |-> -1, gradient |-> ZeroVector(NumEffectiveParameters)]]

AbortFlagNotSet(flag) == flag

\* abort = true, of a failed residual block evaluation
AbortFlagSet(flag) == TRUE

(***************************************************************************)
(* ProgramEvaluator::Evaluate (program_evaluator.h, lines 121-247).        *)
(***************************************************************************)
States == {<<1, 0, 1>>, <<0, 0, 1>>}

\* what a call asks for: residuals, gradient, jacobian may each be NULL
Everything == [residuals |-> TRUE, gradient |-> TRUE, jacobian |-> TRUE]

Requests ==
  {[residuals |-> FALSE, gradient |-> FALSE, jacobian |-> FALSE],
   [residuals |-> TRUE, gradient |-> FALSE, jacobian |-> TRUE],
   Everything}

\* the calls made: calls in which every cost function succeeds, calls in
\* which the cost function of residual block 2 returns false, and a call
\* whose state vector the program does not accept
Calls ==
  {[state |-> x, state_ok |-> TRUE, request |-> q, fail |-> {}] :
     x \in States, q \in Requests}
  \cup {[state |-> x, state_ok |-> TRUE, request |-> Everything, fail |-> {2}] :
          x \in States}
  \cup {[state |-> <<1, 0, 1>>, state_ok |-> FALSE, request |-> Everything,
          fail |-> {}]}

\* The evaluator after its constructor (lines 99-114), with n threads, and
\* the caller's buffers before the first call.
EvConstructed(n) ==
  /\ num_threads = n
  /\ evaluate_scratch = FreshScratch(n)
  /\ call = [state |-> <<0, 0, 0>>, state_ok |-> TRUE,
             request |-> [residuals |-> FALSE, gradient |-> FALSE,
                          jacobian |-> FALSE],
             fail |-> {}]
  /\ cost = -1
  /\ residuals = [k \in 1..NumResiduals |-> -1]
  /\ gradient = [c \in 1..NumEffectiveParameters |-> -1]
  /\ jacobian = [k \in 1..NumResiduals |->
                   [c \in 1..NumEffectiveParameters |-> -1]]
  /\ abort = FALSE
  /\ todo = {}
  /\ thread_block = [t \in 1..n |-> 0]
  /\ thread_last = [t \in 1..n |-> 0]
  /\ ev_pc = "idle"
  /\ ev_result = FALSE
  /\ num_calls = 0
  /\ invoked = {}
  /\ evaluated = [t \in 1..n |-> <<>>]

EvInit == \E n \in 1..NumThreads : EvConstructed(n)

\* Lines 126-148: the call up to the parallel loop.
EvaluateEnter(c) ==
  /\ ev_pc \in {"idle", "returned"}
  /\ num_calls < MaxEvaluateCalls
  /\ num_calls' = num_calls + 1
  /\ call' = c
  /\ invoked' = {}
  /\ evaluated' = [t \in 1..num_threads |-> <<>>]
  /\ IF ~c.state_ok
       THEN \* StateVectorToParameterBlocks failed
            /\ ev_result' = FALSE
            /\ ev_pc' = "returned"
            /\ UNCHANGED <<evaluate_scratch, cost, residuals, gradient, jacobian,
                           abort, todo, thread_block, thread_last>>
       ELSE /\ residuals' = IF c.request.residuals
                              THEN ZeroVector(NumResiduals) ELSE residuals
            /\ jacobian' = IF c.request.jacobian THEN ZeroJacobian ELSE jacobian
            /\ evaluate_scratch' =
                 [t \in 1..num_threads |->
                    [evaluate_scratch[t] EXCEPT !.cost = 0]]
            /\ abort' = FALSE
            /\ todo' = BlockIds
            /\ thread_block' = [t \in 1..num_threads |-> 0]
            /\ thread_last' = [t \in 1..num_threads |-> 0]
            /\ ev_pc' = "parallel"
            /\ UNCHANGED <<cost, gradient, ev_result>>
  /\ UNCHANGED num_threads

\* Lines 149-155: thread t is handed iteration i of the parallel loop and
\* reads abort. The loop has no schedule clause: any thread may get any
\* iteration, and a thread runs the iterations it gets in increasing order.
EvaluateLoopBegin(t, i) ==
  /\ ev_pc = "parallel"
  /\ thread_block[t] = 0
  /\ i \in todo
  /\ i > thread_last[t]
  /\ todo' = todo \ {i}
  /\ thread_last' = [thread_last EXCEPT ![t] = i]
  /\ thread_block' = IF abort THEN thread_block
                              ELSE [thread_block EXCEPT ![t] = i]
  /\ UNCHANGED <<num_threads, evaluate_scratch, call, cost, residuals, gradient,
                 jacobian, abort, ev_pc, ev_result, num_calls, invoked,
                 evaluated>>

\* Lines 157-228: thread t evaluates the residual block of its iteration and
\* stores the results.
EvaluateLoopBody(t) ==
  /\ ev_pc = "parallel"
  /\ thread_block[t] # 0
  /\ \E i \in {thread_block[t]} :
       /\ invoked' = invoked \cup {i}
       /\ thread_block' = [thread_block EXCEPT ![t] = 0]
       /\ IF i \in call.fail
            THEN /\ abort' = AbortFlagSet(abort)
                 /\ UNCHANGED <<evaluate_scratch, residuals, jacobian, evaluated>>
            ELSE /\ evaluate_scratch' =
                      [evaluate_scratch EXCEPT
                         ![t].cost = FlAdd(@, BlockCost(i, call.state)),
                         ![t].gradient =
                            IF call.request.gradient
                              THEN AccumulateGradient(@, i, call.state)
                              ELSE @]
                 /\ residuals' = IF call.request.residuals
                                   THEN WriteResiduals(residuals, i, call.state)
                                   ELSE residuals
                 /\ jacobian' = IF call.request.jacobian
                                  THEN WriteJacobian(jacobian, i)
                                  ELSE jacobian
                 /\ evaluated' = [evaluated EXCEPT ![t] = Append(@, i)]
                 /\ UNCHANGED abort
  /\ UNCHANGED <<num_threads, call, cost, gradient, todo, thread_last, ev_pc,
                 ev_result, num_calls>>

\* line 231 without its test: the reduction runs after every loop
ReductionRunsAlways(flag) == TRUE

\* line 231: if (!abort)
ReductionRuns(flag) == ~flag

\* Lines 231-246: after the loop, the reduction over the threads and the
\* return.
EvaluateReduce ==
  /\ ev_pc = "parallel"
  /\ todo = {}
  /\ \A t \in 1..num_threads : thread_block[t] = 0
  /\ IF ReductionRuns(abort)
       THEN /\ cost' = FlSum(0, [t \in 1..num_threads |->
                                   evaluate_scratch[t].cost])
            /\ gradient' =
                 IF call.request.gradient
                   THEN [c \in 1..NumEffectiveParameters |->
                           FlSum(0, [t \in 1..num_threads |->
                                       evaluate_scratch[t].gradient[c]])]
                   ELSE gradient
       ELSE UNCHANGED <<cost, gradient>>
  /\ ev_result' = ~abort
  /\ ev_pc' = "returned"
  /\ UNCHANGED <<num_threads, evaluate_scratch, call, residuals, jacobian,
                 abort, todo, thread_block, thread_last, num_calls, invoked,
                 evaluated>>

\* the state of an evaluator that is never called
EvIdle == EvConstructed(1)

(***************************************************************************)
(* FactorAndSolve of DenseQR, SparseCholesky and RefinedSparseCholesky.    *)
(* The bodies are not among the sources; they are modelled from their      *)
(* documentation (dense_qr.h, lines 84-96) and from what the tests of      *)
(* RefinedSparseCholesky expect of them (sparse_cholesky_test.cc).         *)
(***************************************************************************)
SolverKinds == {"DenseQR", "SparseCholesky", "RefinedSparseCholesky"}

\* LinearSolverTerminationType
TerminationTypes == {"SUCCESS", "NO_CONVERGENCE", "FAILURE", "FATAL_ERROR"}

SolveIsCalledUnlessFatal(factorize_result) == factorize_result # "FATAL_ERROR"

\* "Solve is only called if Factorize returns LINEAR_SOLVER_SUCCESS"
SolveIsCalled(factorize_result) == factorize_result = "SUCCESS"

\* the refiner is invoked by RefinedSparseCholesky only, after a solve that
\* succeeded
RefineIsCalled(kind, solve_result) ==
  kind = "RefinedSparseCholesky" /\ solve_result = "SUCCESS"

FSInit ==
  /\ fs_kind \in SolverKinds
  /\ fs_method = "none"
  /\ fs_pc = "idle"
  /\ fs_termination_type = "SUCCESS"
  /\ fs_result = "SUCCESS"
  /\ fs_log = <<>>
  /\ fs_calls = 0

\* FactorAndSolve is called.
FactorAndSolveEnter ==
  /\ fs_pc \in {"idle", "returned"}
  /\ fs_calls < MaxFactorAndSolveCalls
  /\ fs_calls' = fs_calls + 1
  /\ fs_log' = <<>>
  /\ fs_method' = "FactorAndSolve"
  /\ fs_pc' = "factorize"
  /\ UNCHANGED <<fs_kind, fs_termination_type, fs_result>>

\* fs_termination_type = Factorize(...), returning t; FactorAndSolve returns t
\* unless Solve is to be called.
FactorAndSolveFactorize(t) ==
  /\ fs_pc = "factorize"
  /\ fs_termination_type' = t
  /\ fs_log' = Append(fs_log, [method |-> "Factorize", returned |-> t])
  /\ IF SolveIsCalled(t)
       THEN fs_pc' = "solve" /\ UNCHANGED fs_result
       ELSE fs_pc' = "returned" /\ fs_result' = t
  /\ UNCHANGED <<fs_kind, fs_method, fs_calls>>

\* fs_termination_type = Solve(...), returning t; FactorAndSolve returns t, a
\* RefinedSparseCholesky after refining the solution.
FactorAndSolveSolve(t) ==
  /\ fs_pc = "solve"
  /\ fs_termination_type' = t
  /\ fs_log' = Append(fs_log, [method |-> "Solve", returned |-> t])
  /\ IF RefineIsCalled(fs_kind, t)
       THEN fs_pc' = "refine" /\ UNCHANGED fs_result
       ELSE fs_pc' = "returned" /\ fs_result' = t
  /\ UNCHANGED <<fs_kind, fs_method, fs_calls>>

\* iterative_refiner_->Refine(...), which returns nothing.
FactorAndSolveRefine ==
  /\ fs_pc = "refine"
  /\ fs_log' = Append(fs_log, [method |-> "Refine", returned |-> "void"])
  /\ fs_pc' = "returned"
  /\ fs_result' = fs_termination_type
  /\ UNCHANGED <<fs_kind, fs_method, fs_termination_type, fs_calls>>

RefinedForwardsWithRefine(log, method, t) ==
  log \o <<[method |-> method, returned |-> t],
           [method |-> "Refine", returned |-> "void"]>>

\* StorageType and Factorize called on their own: the one call of the
\* implementation is made (by a RefinedSparseCholesky, of the SparseCholesky
\* it wraps) and what it returns is returned
RefinedForwards(log, method, t) == log \o <<[method |-> method, returned |-> t]>>

\* StorageType() is called on a sparse Cholesky object.
SolverStorageType ==
  /\ fs_kind # "DenseQR"
  /\ fs_pc \in {"idle", "returned"}
  /\ fs_calls < MaxFactorAndSolveCalls
  /\ fs_calls' = fs_calls + 1
  /\ fs_method' = "StorageType"
  /\ fs_log' = RefinedForwards(<<>>, "StorageType", "UPPER_TRIANGULAR")
  /\ fs_pc' = "returned"
  /\ UNCHANGED <<fs_kind, fs_termination_type, fs_result>>

\* Factorize is called on its own and returns t.
SolverFactorize(t) ==
  /\ fs_pc \in {"idle", "returned"}
  /\ fs_calls < MaxFactorAndSolveCalls
  /\ fs_calls' = fs_calls + 1
  /\ fs_method' = "Factorize"
  /\ fs_log' = RefinedForwards(<<>>, "Factorize", t)
  /\ fs_termination_type' = t
  /\ fs_result' = t
  /\ fs_pc' = "returned"
  /\ UNCHANGED fs_kind

\* the state of a solver object that is never used
FSIdle == FSInit /\ fs_kind = "DenseQR"

(***************************************************************************)
(* CgnrSolver and CudaCgnrSolver (cgnr_solver.cc): construction and        *)
(* SolveImpl.                                                              *)
(***************************************************************************)
PreconditionerTypes ==
  {"IDENTITY", "JACOBI", "SCHUR_JACOBI", "CLUSTER_JACOBI",
   "CLUSTER_TRIDIAGONAL", "SUBSET", "INCOMPLETE_CHOLESKY"}

CgnrSupportsAll(type) == type \in PreconditionerTypes

\* lines 59-61: the types the constructor of CgnrSolver does not reject
CgnrSupports(type) == type \in {"JACOBI", "IDENTITY", "SUBSET"}

CudaCgnrSupportsIncompleteCholesky(type) ==
  type \in {"IDENTITY", "INCOMPLETE_CHOLESKY"}

\* line 143: the types CudaCgnrSolver::Create does not reject
CudaCgnrSupports(type) == type = "IDENTITY"

CgnrInit ==
  /\ cgnr_kind = "none"
  /\ cgnr_pc = "none"
  /\ cgnr_options = [preconditioner_type |-> "IDENTITY"]
  /\ cgnr_error = ""
  /\ cgnr_preconditioner = "nullptr"
  /\ cgnr_summaries = <<>>
  /\ cgnr_calls = <<>>

\* CgnrSolver::CgnrSolver (lines 57-67).
CgnrSolverConstruct(type) ==
  /\ cgnr_pc = "none"
  /\ cgnr_kind' = "CgnrSolver"
  /\ cgnr_options' = [preconditioner_type |-> type]
  /\ cgnr_pc' = IF CgnrSupports(type) THEN "constructed" ELSE "aborted"
  /\ UNCHANGED <<cgnr_error, cgnr_preconditioner, cgnr_summaries, cgnr_calls>>

\* CudaCgnrSolver::Create (lines 140-154) with CudaCgnrSolver::Init (lines
\* 126-138); init_error is "" when Init succeeds.
CudaCgnrSolverCreate(type, init_error) ==
  /\ cgnr_pc = "none"
  /\ cgnr_kind' = "CudaCgnrSolver"
  /\ IF ~CudaCgnrSupports(type)
       THEN /\ cgnr_error' = "CudaCgnrSolver does not support preconditioner type"
            /\ cgnr_pc' = "nullptr"
            /\ UNCHANGED cgnr_options
       ELSE IF init_error # ""
         THEN /\ cgnr_error' = init_error
              /\ cgnr_pc' = "nullptr"
              /\ cgnr_options' = [preconditioner_type |-> type]
         ELSE /\ cgnr_pc' = "constructed"
              /\ cgnr_options' = [preconditioner_type |-> type]
              /\ UNCHANGED cgnr_error
  /\ UNCHANGED <<cgnr_preconditioner, cgnr_summaries, cgnr_calls>>

\* line 77: if (!preconditioner_), taken on every solve
PreconditionerIsMissingAlways(preconditioner_) == TRUE

\* line 77: if (!preconditioner_)
PreconditionerIsMissing(preconditioner_) == preconditioner_ = "nullptr"

\* lines 77-93: the preconditioner SolveImpl constructs, "nullptr" when it
\* constructs none
ConstructedPreconditioner(preconditioner_, type) ==
  IF ~PreconditionerIsMissing(preconditioner_) THEN "nullptr"
  ELSE IF type = "JACOBI" THEN "BlockJacobiPreconditioner"
  ELSE IF type = "SUBSET" THEN "SubsetPreconditioner"
  ELSE "nullptr"

\* CgnrSolver::SolveImpl (lines 71-116); t is what ConjugateGradientsSolver
\* returns.
CgnrSolverSolveImpl(t) ==
  /\ cgnr_kind = "CgnrSolver" /\ cgnr_pc = "constructed"
  /\ Len(cgnr_summaries) < MaxSolveImplCalls
  /\ \E made \in {ConstructedPreconditioner(cgnr_preconditioner,
                                            cgnr_options.preconditioner_type)} :
       /\ cgnr_preconditioner' =
            IF made # "nullptr" THEN made ELSE cgnr_preconditioner
       /\ cgnr_calls' =
            Append(cgnr_calls,
                   (IF made # "nullptr" THEN <<made>> ELSE <<>>)
                   \o (IF cgnr_preconditioner' # "nullptr"
                         THEN <<"Update">> ELSE <<>>)
                   \o <<"ConjugateGradientsSolver::Solve">>)
  /\ cgnr_summaries' = Append(cgnr_summaries, t)
  /\ UNCHANGED <<cgnr_kind, cgnr_pc, cgnr_options, cgnr_error>>

\* CudaCgnrSolver::SolveImpl (lines 156-221); buffers_ok and lhs_ok tell
\* whether the Init calls of lines 171-175 and of line 207 succeed, t is
\* what the CUDA conjugate gradients solver returns.
CudaCgnrSolverSolveImpl(buffers_ok, lhs_ok, t) ==
  /\ cgnr_kind = "CudaCgnrSolver" /\ cgnr_pc = "constructed"
  /\ Len(cgnr_summaries) < MaxSolveImplCalls
  /\ IF ~buffers_ok
       THEN /\ cgnr_summaries' = Append(cgnr_summaries, "FATAL_ERROR")
            /\ cgnr_calls' = Append(cgnr_calls, <<>>)
            /\ UNCHANGED cgnr_preconditioner
       ELSE /\ cgnr_preconditioner' =
                 IF cgnr_options.preconditioner_type = "INCOMPLETE_CHOLESKY"
                   THEN "CudaIncompleteCholeskyPreconditioner" ELSE "nullptr"
            /\ cgnr_summaries' =
                 Append(cgnr_summaries, IF lhs_ok THEN t ELSE "FATAL_ERROR")
            /\ cgnr_calls' =
                 Append(cgnr_calls,
                        IF lhs_ok THEN <<"CudaConjugateGradientsSolver::Solve">>
                                  ELSE <<>>)
  /\ UNCHANGED <<cgnr_kind, cgnr_pc, cgnr_options, cgnr_error>>

\* the state when no CGNR solver is ever constructed
CgnrIdle == CgnrInit

(***************************************************************************)
(* Solve with the trust-region minimizer.  Solver::Solve and the          *)
(* TrustRegionMinimizer are not among the files of the repository: they   *)
(* are modelled from the specification document (its sections 4.7, 7 and  *)
(* 8), with the problems of solver_test.cc and the evaluation callback of *)
(* evaluation_callback_test.cc.  Every residual block is a                *)
(* UnaryIdentityCostFunction on one parameter block of size 1, so its     *)
(* residual is the value of the block and the cost is half the sum of the *)
(* squares.  What the document leaves open is a choice of the action.     *)
(***************************************************************************)
\* a problem: for each parameter block whether it is constant, and for each
\* residual block the parameter block it depends on
Problems ==
  { \* TEST(Solver, TrustRegionProblemHasNoParameterBlocks)
    [parameter_blocks |-> <<>>, residual_blocks |-> <<>>],
    \* TEST(Solver, TrustRegionProblemHasZeroResiduals)
    [parameter_blocks |-> <<[constant |-> FALSE]>>, residual_blocks |-> <<>>],
    \* TEST(Solver, TrustRegionProblemIsConstant)
    [parameter_blocks |-> <<[constant |-> TRUE]>>, residual_blocks |-> <<1>>],
    \* one varying block with a residual
    [parameter_blocks |-> <<[constant |-> FALSE]>>, residual_blocks |-> <<1>>],
    \* a varying block and a constant block, each with a residual
    [parameter_blocks |-> <<[constant |-> FALSE], [constant |-> TRUE]>>,
     residual_blocks |-> <<1, 2>>] }

\* the values the parameter blocks have when Solve is called: a constant
\* block holds 1 (as in TrustRegionProblemIsConstant), a varying one 1 or 2
InitialPoints(problem) ==
  { x \in [1..Len(problem.parameter_blocks) -> {1, 2}] :
      \A b \in 1..Len(problem.parameter_blocks) :
         problem.parameter_blocks[b].constant => x[b] = 1 }

\* the sets of parameter values at which the cost function returns false
FailingSets == {{}, {0}, {1}, {2}, {3}}

\* the steps the linear solver proposes
Deltas == {-1, 1}

IsUsed(problem, b) ==
  \E i \in 1..Len(problem.residual_blocks) : problem.residual_blocks[i] = b

\* (a reduced program that keeps the constant parameter blocks)
ReducedProgramWithConstantBlocks(problem) ==
  { b \in 1..Len(problem.parameter_blocks) : IsUsed(problem, b) }

\* (a reduced program that keeps the parameter blocks no residual depends on)
ReducedProgramWithUnusedBlocks(problem) ==
  { b \in 1..Len(problem.parameter_blocks) :
      ~problem.parameter_blocks[b].constant }

\* the parameter blocks the minimizer optimizes: those that are not constant
\* and that some residual block depends on
ReducedProgram(problem) ==
  { b \in 1..Len(problem.parameter_blocks) :
      ~problem.parameter_blocks[b].constant /\ IsUsed(problem, b) }

\* half the sum of the squared residuals of the residual blocks that depend
\* on a block of the set blocks
HalfSquaredNorm(problem, x, blocks) ==
  SumSeq([i \in 1..Len(problem.residual_blocks) |->
            IF problem.residual_blocks[i] \in blocks
            THEN Num(x[problem.residual_blocks[i]] * x[problem.residual_blocks[i]], 2)
            ELSE Zero])

\* the cost of the residual blocks that are not part of the reduced program
FixedCost(problem, x) ==
  HalfSquaredNorm(problem, x,
                  (1..Len(problem.parameter_blocks)) \ ReducedProgram(problem))

\* the cost at x: that of the reduced program plus the fixed cost
TotalCost(problem, x) ==
  Add(HalfSquaredNorm(problem, x, ReducedProgram(problem)), FixedCost(problem, x))

\* whether a cost function of the reduced program returns false at x
EvaluationFails(problem, failing, x) ==
  \E b \in ReducedProgram(problem) : x[b] \in failing

\* x + delta: the step moves the parameter blocks of the reduced program
StepPlus(problem, x, delta) ==
  [b \in 1..Len(x) |->
     IF b \in ReducedProgram(problem) THEN x[b] + delta ELSE x[b]]

\* (an evaluator that invokes the callback only when Jacobians are wanted)
EvaluatorEvaluateCallbackForJacobiansOnly(events, x, jacobians) ==
  events \o (IF jacobians
             THEN <<[kind |-> "PrepareForEvaluation", x |-> x,
                     jacobians |-> jacobians]>>
             ELSE <<>>)
         \o <<[kind |-> "Evaluate", x |-> x, jacobians |-> jacobians]>>

\* one evaluation at x: the evaluation callback is invoked with the
\* parameter blocks at x, then the cost functions are evaluated there
EvaluatorEvaluate(events, x, jacobians) ==
  events \o <<[kind |-> "PrepareForEvaluation", x |-> x, jacobians |-> jacobians],
              [kind |-> "Evaluate", x |-> x, jacobians |-> jacobians]>>

\* (a minimizer for which a linear solver FAILURE is fatal too)
LinearSolverIsFatalOnFailure(type) == type \in {"FATAL_ERROR", "FAILURE"}

\* the linear solver summaries that abort the solve
LinearSolverIsFatal(type) == type = "FATAL_ERROR"

\* (a minimizer for which every failed evaluation is fatal)
EvaluationFailureIsAlwaysFatal(initial_point) == TRUE

\* a failed evaluation is fatal at the initial point only
EvaluationFailureIsFatal(initial_point) == initial_point

NoParameterBlocksMessage ==
  "Function tolerance reached. No non-constant parameter blocks found."

\* Solver::Summary before the solve sets it
EmptySolverSummary ==
  [termination_type |-> "none", message |-> "",
   initial_cost |-> Neg(One), final_cost |-> Neg(One)]

NoStep == [linear_solver |-> "none", evaluation |-> "none", outcome |-> "none"]

\* the radius a solve begins with
InitialRadius == One

\* a rejected step that leaves the radius as it is
KeptRadius(radius) == radius

\* the feedback of a rejected step: the radius shrinks
ShrunkRadius(radius) == Div(radius, FromInt(2))

\* the feedback of an accepted step: the radius grows
GrownRadius(radius) == Mul(radius, FromInt(2))

\* the state when Solve is called with the options opts on problem, whose
\* parameter blocks hold x and whose cost function fails at failing
TRCalled(problem, failing, opts, x) ==
  /\ tr_problem = problem
  /\ tr_failing = failing
  /\ tr_options = opts
  /\ tr_x_initial = x
  /\ tr_x = tr_x_initial
  /\ tr_cost = Zero
  /\ tr_candidate = tr_x_initial
  /\ tr_pc = "start"
  /\ tr_num_consecutive_rejections = 0
  /\ tr_radius = InitialRadius
  /\ tr_iteration = 0
  /\ tr_summary = EmptySolverSummary
  /\ tr_events = <<>>
  /\ tr_last_step = NoStep

TRInit ==
  \E problem \in Problems, failing \in FailingSets,
     opts \in [max_num_iterations : 1..MaxNumIterations,
              max_num_consecutive_rejections : 1..MaxConsecutiveRejections] :
    \E x \in InitialPoints(problem) : TRCalled(problem, failing, opts, x)

\* the solve ends
Terminate(type, message, final_cost) ==
  /\ tr_pc' = "terminated"
  /\ tr_summary' = [tr_summary EXCEPT !.termination_type = type,
                                      !.message = message,
                                      !.final_cost = final_cost]

\* Solve up to the loop: a reduced program without parameter blocks is
\* reported as converged at once
TRSolveBegin ==
  /\ tr_pc = "start"
  /\ IF ReducedProgram(tr_problem) = {}
     THEN /\ tr_pc' = "terminated"
          /\ tr_summary' = [termination_type |-> "CONVERGENCE",
                            message |-> NoParameterBlocksMessage,
                            initial_cost |-> FixedCost(tr_problem, tr_x),
                            final_cost |-> FixedCost(tr_problem, tr_x)]
     ELSE /\ tr_pc' = "iteration_zero"
          /\ UNCHANGED tr_summary
  /\ UNCHANGED <<tr_problem, tr_failing, tr_options, tr_x, tr_x_initial,
                 tr_cost, tr_candidate, tr_num_consecutive_rejections, tr_radius,
                 tr_iteration, tr_events, tr_last_step>>
  /\ UNCHANGED not_tr_vars

\* the evaluation of the initial point, with its Jacobian
TRIterationZero ==
  /\ tr_pc = "iteration_zero"
  /\ tr_events' = EvaluatorEvaluate(tr_events, tr_x, TRUE)
  /\ IF EvaluationFails(tr_problem, tr_failing, tr_x)
        /\ EvaluationFailureIsFatal(TRUE)
     THEN /\ Terminate("FAILURE", "the evaluation of the initial point failed",
                       tr_summary.final_cost)
          /\ tr_last_step' = [linear_solver |-> "none", evaluation |-> "failed",
                              outcome |-> "fatal"]
          /\ UNCHANGED tr_cost
     ELSE /\ tr_cost' = TotalCost(tr_problem, tr_x)
          /\ tr_summary' = [tr_summary EXCEPT
                              !.initial_cost = TotalCost(tr_problem, tr_x)]
          /\ tr_pc' = "compute_step"
          /\ UNCHANGED tr_last_step
  /\ UNCHANGED <<tr_problem, tr_failing, tr_options, tr_x, tr_x_initial,
                 tr_candidate, tr_num_consecutive_rejections, tr_radius,
                 tr_iteration>>
  /\ UNCHANGED not_tr_vars

\* a rejected step: the current point is kept and a new step is proposed,
\* unless the maximum number of consecutive rejections is reached; the
\* termination type reported then is not specified
Reject(linear_solver, evaluation) ==
  /\ tr_num_consecutive_rejections' = tr_num_consecutive_rejections + 1
  /\ tr_radius' = ShrunkRadius(tr_radius)
  /\ tr_last_step' = [linear_solver |-> linear_solver, evaluation |-> evaluation,
                      outcome |-> "rejected"]
  /\ IF tr_num_consecutive_rejections + 1
          >= tr_options.max_num_consecutive_rejections
     THEN \E type \in {"CONVERGENCE", "NO_CONVERGENCE", "FAILURE"} :
             Terminate(type, "the maximum number of consecutive rejected steps was reached",
                       tr_cost)
     ELSE /\ tr_pc' = "compute_step"
          /\ UNCHANGED tr_summary
  /\ UNCHANGED <<tr_x, tr_cost, tr_iteration>>

\* the strategy computes a step with the linear solver, whose summary has
\* the termination type type
TRComputeStep(type, delta) ==
  /\ tr_pc = "compute_step"
  /\ IF LinearSolverIsFatal(type)
     THEN /\ Terminate("FAILURE", "the linear solver failed with a fatal error",
                       tr_cost)
          /\ tr_last_step' = [linear_solver |-> type, evaluation |-> "none",
                              outcome |-> "fatal"]
          /\ UNCHANGED <<tr_x, tr_cost, tr_iteration, tr_candidate,
                         tr_num_consecutive_rejections, tr_radius>>
     ELSE IF type = "FAILURE"
     THEN /\ Reject(type, "none")
          /\ UNCHANGED tr_candidate
     ELSE /\ tr_candidate' = StepPlus(tr_problem, tr_x, delta)
          /\ tr_last_step' = [linear_solver |-> type, evaluation |-> "none",
                              outcome |-> "proposed"]
          /\ tr_pc' = "evaluate_candidate"
          /\ UNCHANGED <<tr_x, tr_cost, tr_iteration, tr_summary,
                         tr_num_consecutive_rejections, tr_radius>>
  /\ UNCHANGED <<tr_problem, tr_failing, tr_options, tr_x_initial, tr_events>>
  /\ UNCHANGED not_tr_vars

\* the evaluation of the cost at the candidate point, and the decision: the
\* step is accepted when the cost decreases
TREvaluateCandidate ==
  /\ tr_pc = "evaluate_candidate"
  /\ tr_events' = EvaluatorEvaluate(tr_events, tr_candidate, FALSE)
  /\ IF EvaluationFails(tr_problem, tr_failing, tr_candidate)
     THEN IF EvaluationFailureIsFatal(FALSE)
          THEN /\ Terminate("FAILURE", "the evaluation of the candidate point failed",
                            tr_cost)
               /\ tr_last_step' = [tr_last_step EXCEPT !.evaluation = "failed",
                                                       !.outcome = "fatal"]
               /\ UNCHANGED <<tr_x, tr_cost, tr_iteration,
                              tr_num_consecutive_rejections, tr_radius>>
          ELSE Reject(tr_last_step.linear_solver, "failed")
     ELSE IF Lt(TotalCost(tr_problem, tr_candidate), tr_cost)
     THEN /\ tr_x' = tr_candidate
          /\ tr_cost' = TotalCost(tr_problem, tr_candidate)
          /\ tr_iteration' = tr_iteration + 1
          /\ tr_num_consecutive_rejections' = 0
          /\ tr_radius' = GrownRadius(tr_radius)
          /\ tr_last_step' = [tr_last_step EXCEPT !.evaluation = "ok",
                                                  !.outcome = "accepted"]
          /\ tr_pc' = "check_terminal"
          /\ UNCHANGED tr_summary
     ELSE Reject(tr_last_step.linear_solver, "ok")
  /\ UNCHANGED <<tr_problem, tr_failing, tr_options, tr_x_initial, tr_candidate>>
  /\ UNCHANGED not_tr_vars

\* the terminal conditions, checked after an accepted step: a tolerance (of
\* the gradient, the parameters or the function value) is reached or not,
\* then the maximum number of iterations
TRCheckTerminal(tolerance_reached) ==
  /\ tr_pc = "check_terminal"
  /\ IF tolerance_reached
     THEN Terminate("CONVERGENCE", "a tolerance was reached", tr_cost)
     ELSE IF tr_iteration >= tr_options.max_num_iterations
     THEN Terminate("NO_CONVERGENCE", "the maximum number of iterations was reached",
                    tr_cost)
     ELSE /\ tr_pc' = "evaluate_current"
          /\ UNCHANGED tr_summary
  /\ UNCHANGED <<tr_problem, tr_failing, tr_options, tr_x, tr_x_initial,
                 tr_cost, tr_candidate, tr_num_consecutive_rejections, tr_radius,
                 tr_iteration, tr_events, tr_last_step>>
  /\ UNCHANGED not_tr_vars

\* the evaluation of the new current point with its Jacobian; the cost
\* functions returned true at this point when it was the candidate
TREvaluateCurrent ==
  /\ tr_pc = "evaluate_current"
  /\ tr_events' = EvaluatorEvaluate(tr_events, tr_x, TRUE)
  /\ tr_pc' = "compute_step"
  /\ UNCHANGED <<tr_problem, tr_failing, tr_options, tr_x, tr_x_initial,
                 tr_cost, tr_candidate, tr_num_consecutive_rejections, tr_radius,
                 tr_iteration, tr_summary, tr_last_step>>
  /\ UNCHANGED not_tr_vars

\* no Solve is made: the problem without parameter blocks, never solved
TRIdle ==
  TRCalled([parameter_blocks |-> <<>>, residual_blocks |-> <<>>], {},
           [max_num_iterations |-> 1, max_num_consecutive_rejections |-> 1],
           <<>>)

(***************************************************************************)
(* PowerSeriesExpansionPreconditioner.  Only the class declaration and    *)
(* its test are among the files of the repository; RightMultiply is       *)
(* modelled from the stopping rule of the specification document (section *)
(* 4.2) and from the options the test constructs the preconditioner with  *)
(* (tolerance, minimum and maximum number of iterations).  The Schur      *)
(* complement has one row: the block diagonal inverse and the operator of *)
(* the power series are numbers, and the norm is the absolute value.      *)
(***************************************************************************)
\* the operators of the power series: the factor from one term to the next
SpseOperators == {Zero, Num(1, 2), Num(-1, 2), Num(1, 4), One}

\* spse_tolerance; the last one is a tolerance every term is below
SpseTolerances == {Num(1, 16), Num(1, 4), FromInt(4)}

Fabs(x) == IF x[1] < 0 THEN Neg(x) ELSE x

\* (a loop that leaves as soon as the change is below the tolerance)
SpseStopIgnoringMinIterations(i, series_term, norm_threshold, opts) ==
  \/ i >= opts.max_num_spse_iterations
  \/ Lt(Fabs(series_term), norm_threshold)

\* the test that ends the loop after the term i was added
SpseStop(i, series_term, norm_threshold, opts) ==
  \/ i >= opts.max_num_spse_iterations
  \/ /\ i >= opts.min_num_spse_iterations
     /\ Lt(Fabs(series_term), norm_threshold)

\* the preconditioner constructed with the options opts for the operator q
PSConstructed(opts, q) ==
  /\ ps_options = opts
  /\ ps_operator = q
  /\ ps_x = One
  /\ ps_y = Zero
  /\ b_init = Zero
  /\ b_temp = Zero
  /\ b_temp_previous = Zero
  /\ ps_i = 0
  /\ ps_pc = "entry"
  /\ ps_below = <<>>

PSInit ==
  \E opts \in { o \in [spse_tolerance : SpseTolerances,
                       min_num_spse_iterations : 1..MaxSpseIterations,
                       max_num_spse_iterations : 1..MaxSpseIterations] :
                    o.min_num_spse_iterations <= o.max_num_spse_iterations },
     q \in SpseOperators :
    PSConstructed(opts, q)

\* RightMultiply up to the loop: the first term is the block diagonal
\* inverse (here 1) applied to x
PSRightMultiplyEnter ==
  /\ ps_pc = "entry"
  /\ b_init' = ps_x
  /\ b_temp_previous' = ps_x
  /\ ps_y' = ps_x
  /\ ps_i' = 1
  /\ ps_pc' = "loop"
  /\ UNCHANGED <<ps_options, ps_operator, ps_x, b_temp, ps_below>>
  /\ UNCHANGED not_ps_vars

\* one iteration of the loop: the next term of the series is added to y,
\* then the loop ends or goes on with the next i
PSIterate ==
  /\ ps_pc = "loop"
  /\ \E series_term \in {Mul(ps_operator, b_temp_previous)} :
     \E norm_threshold \in {Mul(ps_options.spse_tolerance, Fabs(b_init))} :
       /\ b_temp' = series_term
       /\ ps_y' = Add(ps_y, series_term)
       /\ ps_below' = Append(ps_below, Lt(Fabs(series_term), norm_threshold))
       /\ IF SpseStop(ps_i, series_term, norm_threshold, ps_options)
          THEN /\ ps_pc' = "returned"
               /\ UNCHANGED <<ps_i, b_temp_previous>>
          ELSE /\ ps_i' = ps_i + 1
               /\ b_temp_previous' = series_term
               /\ UNCHANGED ps_pc
  /\ UNCHANGED <<ps_options, ps_operator, ps_x, b_init>>
  /\ UNCHANGED not_ps_vars

\* no RightMultiply is made
PSIdle ==
  PSConstructed([spse_tolerance |-> Num(1, 4), min_num_spse_iterations |-> 1,
                 max_num_spse_iterations |-> 1], Zero)

(***************************************************************************)
(* ProgramEvaluator::Plus (program_evaluator.h, lines 249-332).            *)
(***************************************************************************)
\* The programs: the sizes of the parameter blocks and, for each residual
\* block, the positions (from 1) of the parameter blocks it depends on.
PlusPrograms ==
  { \* residual blocks in the order of the first block they depend on
    [sizes |-> <<1, 2, 1>>,
     residual_blocks |-> << <<1, 3>>, <<1, 3>>, <<2, 3>>, <<3>> >>],
    \* residual blocks of the second block before those of the first
    [sizes |-> <<1, 1, 2>>,
     residual_blocks |-> << <<2, 3>>, <<1, 3>>, <<1, 3>> >>],
    \* a residual block of the last block alone comes first
    [sizes |-> <<2, 1, 1>>,
     residual_blocks |-> << <<3>>, <<1, 3>>, <<2, 3>> >>],
    \* one block with one residual block
    [sizes |-> <<2>>, residual_blocks |-> << <<1>> >>] }

PlusOptions(program) ==
  [optimize_e_blocks : BOOLEAN,
   num_eliminate_blocks : 0..Len(program.sizes)]

\* the sum of the sizes of the first n blocks
RECURSIVE SumSizes(_, _)
SumSizes(sizes, n) == IF n = 0 THEN 0 ELSE sizes[n] + SumSizes(sizes, n - 1)

\* the parameter blocks of a program: the index of a block is its position,
\* its delta_offset the sum of the sizes of the blocks before it
LaidOut(program) ==
  [k \in 1..Len(program.sizes) |->
     [index |-> k - 1, delta_offset |-> SumSizes(program.sizes, k - 1),
      is_constant |-> FALSE, state |-> -1]]

\* lines 259-273
ResidualBlocksPerEBlock(program, blocks, num_eliminate_blocks) ==
  [e \in 1..num_eliminate_blocks |->
     SumInts([i \in 1..Len(program.residual_blocks) |->
       Cardinality({j \in 1..Len(program.residual_blocks[i]) :
         LET parameter_block == blocks[program.residual_blocks[i][j]]
         IN /\ ~parameter_block.is_constant
            /\ parameter_block.index < num_eliminate_blocks
            /\ parameter_block.index = e - 1})])]

\* lines 279-285: SetState and SetConstant of the blocks that stay
SetConstantFrom(program, blocks, num_eliminate_blocks) ==
  [k \in 1..Len(blocks) |->
     IF k - 1 >= num_eliminate_blocks
       THEN [blocks[k] EXCEPT !.state = SumSizes(program.sizes, k - 1),
                              !.is_constant = TRUE]
       ELSE blocks[k]]

\* lines 325-327
SetVaryingFrom(blocks, num_eliminate_blocks) ==
  [k \in 1..Len(blocks) |->
     IF k - 1 >= num_eliminate_blocks
       THEN [blocks[k] EXCEPT !.is_constant = FALSE]
       ELSE blocks[k]]

\* lines 301-304: the residual blocks copied into the inner program, 0 for
\* an element read past the end of the list
CopiedResidualBlocks(program, start, end) ==
  [k \in 1..(end - start) |->
     IF start + k <= Len(program.residual_blocks) THEN start + k ELSE 0]

\* lines 321-322 without the restore: the block keeps what it was given
KeptIndex(old, current) == current

\* lines 321-322: set_index(old_index), set_delta_offset(old_delta_offset)
RestoredIndex(old, current) == old

\* line 320 without the increment
SameStartResidualBlocks(start, count) == start

\* line 320: start_residual_blocks += residual_blocks_per_e_block[i]
NextStartResidualBlocks(start, count) == start + count

\* the evaluator after its constructor, and the locals of Plus before a call
PlusConstructed(program, opts) ==
  /\ pl_program = program
  /\ pl_options = opts
  /\ pl_blocks = LaidOut(program)
  /\ pl_before = LaidOut(program)
  /\ pl_pc = "idle"
  /\ pl_i = 0
  /\ residual_blocks_per_e_block = <<>>
  /\ start_residual_blocks = 0
  /\ start_parameter_block = 0
  /\ old_index = 0
  /\ old_delta_offset = 0
  /\ pl_inner = <<>>
  /\ pl_result = FALSE
  /\ pl_calls = 0

PlusInit ==
  \E program \in PlusPrograms : \E opts \in PlusOptions(program) :
    PlusConstructed(program, opts)

\* Lines 249-290: the call up to the loop of the inner solves; plus_ok is
\* what program_->Plus returns.
PlusEnter(plus_ok) ==
  /\ pl_pc \in {"idle", "returned"}
  /\ pl_calls < MaxPlusCalls
  /\ pl_calls' = pl_calls + 1
  /\ pl_before' = pl_blocks
  /\ pl_inner' = <<>>
  /\ IF ~plus_ok \/ ~pl_options.optimize_e_blocks
       THEN /\ pl_result' = plus_ok
            /\ pl_pc' = "returned"
            /\ UNCHANGED <<pl_blocks, pl_i, residual_blocks_per_e_block,
                           start_residual_blocks, start_parameter_block>>
       ELSE /\ residual_blocks_per_e_block' =
                 ResidualBlocksPerEBlock(pl_program, pl_blocks,
                                         pl_options.num_eliminate_blocks)
            /\ pl_blocks' = SetConstantFrom(pl_program, pl_blocks,
                                            pl_options.num_eliminate_blocks)
            /\ start_residual_blocks' = 0
            /\ start_parameter_block' = 0
            /\ pl_i' = 0
            /\ pl_pc' = "loop"
            /\ UNCHANGED pl_result
  /\ UNCHANGED <<pl_program, pl_options, old_index, old_delta_offset>>

\* Lines 292-308: the inner program of block i is formed and handed to
\* MinimalSolver::Solve.  A copy that reads past the end of the residual
\* block list is undefined: the process dies or goes on with what it read.
PlusInnerSolveBegin(dies) ==
  /\ pl_pc = "loop"
  /\ pl_i < pl_options.num_eliminate_blocks
  /\ old_index' = pl_blocks[pl_i + 1].index
  /\ old_delta_offset' = pl_blocks[pl_i + 1].delta_offset
  /\ pl_blocks' = [pl_blocks EXCEPT ![pl_i + 1].index = 0,
                                    ![pl_i + 1].delta_offset = 0]
  /\ \E end_residual_blocks \in
        {start_residual_blocks + residual_blocks_per_e_block[pl_i + 1]} :
       IF end_residual_blocks > Len(pl_program.residual_blocks) /\ dies
         THEN /\ pl_pc' = "crashed"
              /\ UNCHANGED pl_inner
         ELSE /\ pl_pc' = "solving"
              /\ pl_inner' =
                   Append(pl_inner,
                          [parameter_block |-> pl_i + 1,
                           state |-> start_parameter_block,
                           start |-> start_residual_blocks,
                           residual_blocks |->
                             CopiedResidualBlocks(pl_program,
                                                  start_residual_blocks,
                                                  end_residual_blocks)])
  /\ UNCHANGED <<pl_program, pl_options, pl_before, pl_i,
                 residual_blocks_per_e_block, start_residual_blocks,
                 start_parameter_block, pl_result, pl_calls>>

\* Lines 309-323: the inner solve returns; cost_ok tells whether its final
\* cost is at most its initial cost (CHECK_GE).
PlusInnerSolveEnd(cost_ok) ==
  /\ pl_pc = "solving"
  /\ IF ~cost_ok
       THEN /\ pl_pc' = "aborted"
            /\ UNCHANGED <<pl_blocks, pl_i, start_residual_blocks,
                           start_parameter_block>>
       ELSE /\ start_parameter_block' =
                 start_parameter_block + pl_program.sizes[pl_i + 1]
            /\ start_residual_blocks' =
                 NextStartResidualBlocks(start_residual_blocks,
                                         residual_blocks_per_e_block[pl_i + 1])
            /\ pl_blocks' =
                 [pl_blocks EXCEPT
                    ![pl_i + 1].index = RestoredIndex(old_index, @),
                    ![pl_i + 1].delta_offset = RestoredIndex(old_delta_offset, @)]
            /\ pl_i' = pl_i + 1
            /\ pl_pc' = "loop"
  /\ UNCHANGED <<pl_program, pl_options, pl_before,
                 residual_blocks_per_e_block, old_index, old_delta_offset,
                 pl_inner, pl_result, pl_calls>>

\* Lines 325-331: after the last inner solve.
PlusReturn ==
  /\ pl_pc = "loop"
  /\ pl_i >= pl_options.num_eliminate_blocks
  /\ pl_blocks' = SetVaryingFrom(pl_blocks, pl_options.num_eliminate_blocks)
  /\ pl_result' = TRUE
  /\ pl_pc' = "returned"
  /\ UNCHANGED <<pl_program, pl_options, pl_before, pl_i,
                 residual_blocks_per_e_block, start_residual_blocks,
                 start_parameter_block, old_index, old_delta_offset, pl_inner,
                 pl_calls>>

\* the state of an evaluator whose Plus is never called
PlusIdle ==
  PlusConstructed([sizes |-> <<2>>, residual_blocks |-> << <<1>> >>],
                  [optimize_e_blocks |-> FALSE, num_eliminate_blocks |-> 0])

(***************************************************************************)
(* DenseQRSolver::SolveImpl (dense_qr_solver.cc, in the lines 517-565 of   *)
(* evaluation_callback_test.cc).                                           *)
(***************************************************************************)
\* the vectors of length n with entries 1 and 2
QRVectors(n) == [1..n -> {1, 2}]

\* lines 538-541 with the vector zeroed on every call
ResizedAndZeroed(v, augmented_num_rows) ==
  [k \in 1..augmented_num_rows |-> 0]

\* lines 538-541: rhs_ is resized and set to zero when its size differs
ResizedIfNeeded(v, augmented_num_rows) ==
  IF Len(v) # augmented_num_rows
    THEN [k \in 1..augmented_num_rows |-> 0]
    ELSE v

\* line 542: rhs_.head(num_rows) = b
WithHead(v, b) == [k \in 1..Len(v) |-> IF k <= Len(b) THEN b[k] ELSE v[k]]

\* the solver after its constructor (lines 517-518)
QRConstructed ==
  /\ qr_rhs = <<>>
  /\ qr_last = [num_rows |-> 0, num_cols |-> 0, D |-> FALSE, b |-> <<>>,
                lhs_rows |-> 0]
  /\ qr_summary = "none"
  /\ qr_calls = 0

QRInit == QRConstructed

\* DenseQRSolver::SolveImpl (lines 520-565) on a matrix of num_rows rows and
\* num_cols columns; has_D tells whether per_solve_options.D is given.
DenseQRSolverSolveImpl(num_rows, num_cols, has_D, b) ==
  /\ qr_calls < MaxDenseQRCalls
  /\ qr_calls' = qr_calls + 1
  /\ \E augmented_num_rows \in {num_rows + (IF has_D THEN num_cols ELSE 0)} :
       /\ qr_rhs' = WithHead(ResizedIfNeeded(qr_rhs, augmented_num_rows), b)
       /\ qr_last' = [num_rows |-> num_rows, num_cols |-> num_cols,
                      D |-> has_D, b |-> b, lhs_rows |-> augmented_num_rows]
  /\ qr_summary' = "TOLERANCE"

\* the state of a solver that is never called
QRIdle == QRConstructed

(***************************************************************************)
(* MKLPardiso and MKLSparseCholesky (in compressed_row_jacobian_writer.h,  *)
(* lines 388-644).  A matrix is given by the ascending columns of each of  *)
(* its rows; the value at position k of its value array is k.              *)
(***************************************************************************)
MKLRows == {<<>>, <<0>>, <<1>>, <<0, 1>>}

\* the matrices of two rows
MKLMatrices == {<<row0, row1>> : row0 \in MKLRows, row1 \in MKLRows}

\* m.num_nonzeros()
MKLNumNonzeros(m) == SumInts([k \in 1..Len(m) |-> Len(m[k])])

\* m.values()
MKLValues(m) == [k \in 1..MKLNumNonzeros(m) |-> k]

\* rows_[row] of the input, row counted from 0
MKLRowStart(m, row) == SumInts([k \in 1..row |-> Len(m[k])])

\* std::lower_bound(row_begin, row_end, c) as an offset from row_begin
LowerBound(entries, c) ==
  Cardinality({k \in 1..Len(entries) : entries[k] < c})

\* line 436 with the table cleared like rows_out_ and cols_out_
ClearedPermutation(permutation) == <<>>

\* lines 432-436: permutation_ is not cleared, reserve keeps its elements
ReservedPermutation(permutation) == permutation

\* lines 438-456: the loop over the rows, from row on
RECURSIVE AnalyzeRows(_, _, _)
AnalyzeRows(m, row, acc) ==
  IF row >= Len(m)
    THEN [acc EXCEPT !.rows_out = Append(@, acc.value_offset)]
    ELSE LET entries == m[row + 1]
             it == LowerBound(entries, row)
             absent == it = Len(entries) \/ entries[it + 1] > row
             num == Len(entries) - it
             begun == [acc EXCEPT
                         !.rows_out = Append(@, acc.value_offset),
                         !.modifications = @ + (IF it > 0 THEN 1 ELSE 0)]
             diagonal == IF absent
                           THEN [begun EXCEPT
                                   !.modifications = @ + 1,
                                   !.cols_out = Append(@, row),
                                   !.permutation = Append(@, <<-1, 0>>),
                                   !.value_offset = @ + 1]
                           ELSE begun
         IN AnalyzeRows(m, row + 1,
              [diagonal EXCEPT
                 !.permutation = Append(@, <<MKLRowStart(m, row) + it, num>>),
                 !.value_offset = @ + num,
                 !.cols_out = @ \o SubSeq(entries, it + 1, Len(entries))])

\* MKLPardiso::AnalyzeStructure (lines 413-466) for a matrix in symmetric
\* storage, on an object whose table is permutation
AnalyzeStructure(m, permutation) ==
  LET done == AnalyzeRows(m, 0,
                [rows_out |-> <<>>, cols_out |-> <<>>,
                 permutation |-> ReservedPermutation(permutation),
                 modifications |-> 0, value_offset |-> 0])
  IN [rows_out |-> done.rows_out, cols_out |-> done.cols_out,
      permutation |-> done.permutation,
      requires_remap |-> done.modifications # 0,
      num_nonzeros |-> IF done.modifications # 0 THEN done.value_offset
                                                 ELSE MKLNumNonzeros(m)]

\* values_prem_.resize(n): the elements kept, the new ones zero
Resized(v, n) == [j \in 1..n |-> IF j <= Len(v) THEN v[j] ELSE 0]

\* lines 578-589: the loop over the table from its k-th pair on; outside
\* counts the values copied to positions past the end of values_prem_
RECURSIVE RemapFrom(_, _, _, _)
RemapFrom(values, permutation, k, acc) ==
  IF k > Len(permutation) THEN acc
  ELSE LET from == permutation[k][1]
           num == permutation[k][2]
           at == acc.value_offset
       IN IF from = -1
            THEN RemapFrom(values, permutation, k + 1,
                           [acc EXCEPT !.value_offset = @ + 1])
            ELSE RemapFrom(values, permutation, k + 1,
                   [acc EXCEPT
                      !.prem = [j \in 1..Len(@) |->
                                  IF j - 1 >= at /\ j - 1 < at + num
                                    THEN values[from + (j - 1 - at) + 1]
                                    ELSE @[j]],
                      !.outside = @ + Cardinality({j \in at..(at + num - 1) :
                                                     j >= Len(acc.prem)}),
                      !.value_offset = @ + num])

\* lines 574-591: the remap of MKLPardiso::Factorize
Remap(values, permutation, num_nonzeros, prem) ==
  RemapFrom(values, permutation, 1,
            [prem |-> Resized(prem, num_nonzeros), outside |-> 0,
             value_offset |-> 0])

\* line 627 without its test: the analysis is made by every call
AnalysisIsNeededAlways(analyzed) == TRUE

\* line 627: if (!analyzed_)
AnalysisIsNeeded(analyzed) == ~analyzed

\* the object after MKLSparseCholesky::Create (lines 609-617) for matrix m
MKLConstructed(m) ==
  /\ mkl_lhs = m
  /\ analyzed_ = FALSE
  /\ permutation_ = <<>>
  /\ rows_out_ = <<>>
  /\ cols_out_ = <<>>
  /\ num_nonzeros_ = 0
  /\ requires_remap_ = FALSE
  /\ values_prem_ = <<>>
  /\ mkl_outside = 0
  /\ mkl_calls = <<>>
  /\ mkl_pc = "ready"

MKLInit == \E m \in MKLMatrices : MKLConstructed(m)

\* MKLSparseCholesky::Factorize (lines 623-644) with the functions of
\* MKLPardiso it calls; reorder_ok and factorize_ok tell whether pardiso
\* reports no error in Reorder (line 551) and Factorize (line 594).  A remap
\* that writes past the end of values_prem_ is undefined: the process dies
\* or goes on.
MKLSparseCholeskyFactorize(reorder_ok, factorize_ok, dies) ==
  /\ mkl_pc = "ready"
  /\ Len(mkl_calls) < MaxFactorizeCalls
  /\ \E analysis \in {AnalysisIsNeeded(analyzed_)} :
     \E s \in {AnalyzeStructure(mkl_lhs, permutation_)} :
       /\ IF analysis
            THEN /\ permutation_' = s.permutation
                 /\ rows_out_' = s.rows_out
                 /\ cols_out_' = s.cols_out
                 /\ num_nonzeros_' = s.num_nonzeros
                 /\ requires_remap_' = s.requires_remap
            ELSE UNCHANGED <<permutation_, rows_out_, cols_out_, num_nonzeros_,
                             requires_remap_>>
       /\ IF analysis /\ ~reorder_ok
            THEN /\ mkl_calls' =
                      Append(mkl_calls,
                             [ran |-> <<"DefineStructure", "Reorder">>,
                              reorder_ok |-> FALSE, factorize_ok |-> FALSE,
                              returned |-> "FATAL_ERROR"])
                 /\ UNCHANGED <<analyzed_, values_prem_, mkl_outside, mkl_pc>>
            ELSE \E remapped \in
                      {IF requires_remap_'
                         THEN Remap(MKLValues(mkl_lhs), permutation_',
                                    num_nonzeros_', values_prem_)
                         ELSE [prem |-> values_prem_, outside |-> 0,
                               value_offset |-> 0]} :
                   /\ analyzed_' = TRUE
                   /\ values_prem_' = remapped.prem
                   /\ mkl_outside' = remapped.outside
                   /\ IF remapped.outside > 0 /\ dies
                        THEN /\ mkl_pc' = "crashed"
                             /\ UNCHANGED mkl_calls
                        ELSE /\ mkl_calls' =
                                  Append(mkl_calls,
                                    [ran |-> (IF analysis
                                                THEN <<"DefineStructure", "Reorder">>
                                                ELSE <<>>) \o <<"Factorize">>,
                                     reorder_ok |-> analysis,
                                     factorize_ok |-> factorize_ok,
                                     returned |-> IF factorize_ok THEN "SUCCESS"
                                                                  ELSE "FAILURE"])
                             /\ UNCHANGED mkl_pc
  /\ UNCHANGED mkl_lhs

\* the state of an object that is never used
MKLIdle == MKLConstructed(<<<<0, 1>>, <<1>>>>)

(***************************************************************************)
(* Specifications.                                                         *)
(***************************************************************************)
CGNext ==
  \/ CGEnter /\ UNCHANGED not_cg_vars
  \/ CGIterate /\ UNCHANGED not_cg_vars

\* a solver about to be called, beside an evaluator and a factorization that
\* are never used
InitCG == CGInit /\ EvIdle /\ FSIdle /\ CgnrIdle /\ TRIdle /\ PSIdle
  /\ PlusIdle /\ QRIdle /\ MKLIdle

SpecCG == InitCG /\ [][CGNext]_vars

EvNext ==
  \/ \E c \in Calls : EvaluateEnter(c) /\ UNCHANGED not_ev_vars
  \/ \E t \in 1..num_threads : \E i \in BlockIds :
       EvaluateLoopBegin(t, i) /\ UNCHANGED not_ev_vars
  \/ \E t \in 1..num_threads :
       EvaluateLoopBody(t) /\ UNCHANGED not_ev_vars
  \/ EvaluateReduce /\ UNCHANGED not_ev_vars

InitEvaluate == EvInit /\ CGIdle /\ FSIdle /\ CgnrIdle /\ TRIdle /\ PSIdle
  /\ PlusIdle /\ QRIdle /\ MKLIdle

SpecEvaluate == InitEvaluate /\ [][EvNext]_vars

FSNext ==
  \/ FactorAndSolveEnter /\ UNCHANGED not_fs_vars
  \/ \E t \in TerminationTypes :
       FactorAndSolveFactorize(t) /\ UNCHANGED not_fs_vars
  \/ \E t \in TerminationTypes :
       FactorAndSolveSolve(t) /\ UNCHANGED not_fs_vars
  \/ FactorAndSolveRefine /\ UNCHANGED not_fs_vars
  \/ SolverStorageType /\ UNCHANGED not_fs_vars
  \/ \E t \in TerminationTypes :
       SolverFactorize(t) /\ UNCHANGED not_fs_vars

InitFactorAndSolve == FSInit /\ CGIdle /\ EvIdle /\ CgnrIdle /\ TRIdle /\ PSIdle
  /\ PlusIdle /\ QRIdle /\ MKLIdle

SpecFactorAndSolve == InitFactorAndSolve /\ [][FSNext]_vars

CgnrNext ==
  \/ \E type \in PreconditionerTypes :
       CgnrSolverConstruct(type) /\ UNCHANGED not_cgnr_vars
  \/ \E type \in PreconditionerTypes :
     \E e \in {"", "CudaConjugateGradientsSolver::Create failed."} :
       CudaCgnrSolverCreate(type, e) /\ UNCHANGED not_cgnr_vars
  \/ \E t \in TerminationTypes :
       CgnrSolverSolveImpl(t) /\ UNCHANGED not_cgnr_vars
  \/ \E buffers_ok, lhs_ok \in BOOLEAN : \E t \in TerminationTypes :
       CudaCgnrSolverSolveImpl(buffers_ok, lhs_ok, t) /\ UNCHANGED not_cgnr_vars

InitCgnr == CgnrInit /\ CGIdle /\ EvIdle /\ FSIdle /\ TRIdle /\ PSIdle
  /\ PlusIdle /\ QRIdle /\ MKLIdle

SpecCgnr == InitCgnr /\ [][CgnrNext]_vars

TRNext ==
  \/ TRSolveBegin
  \/ TRIterationZero
  \/ \E type \in TerminationTypes, delta \in Deltas : TRComputeStep(type, delta)
  \/ TREvaluateCandidate
  \/ \E tolerance_reached \in BOOLEAN : TRCheckTerminal(tolerance_reached)
  \/ TREvaluateCurrent

InitTrustRegion == TRInit /\ CGIdle /\ EvIdle /\ FSIdle /\ CgnrIdle /\ PSIdle
  /\ PlusIdle /\ QRIdle /\ MKLIdle

SpecTrustRegion == InitTrustRegion /\ [][TRNext]_vars

PSNext ==
  \/ PSRightMultiplyEnter
  \/ PSIterate

InitPowerSeries == PSInit /\ CGIdle /\ EvIdle /\ FSIdle /\ CgnrIdle /\ TRIdle
  /\ PlusIdle /\ QRIdle /\ MKLIdle

SpecPowerSeries == InitPowerSeries /\ [][PSNext]_vars

PlusNext ==
  \/ \E plus_ok \in BOOLEAN : PlusEnter(plus_ok) /\ UNCHANGED not_pl_vars
  \/ \E dies \in BOOLEAN : PlusInnerSolveBegin(dies) /\ UNCHANGED not_pl_vars
  \/ \E cost_ok \in BOOLEAN : PlusInnerSolveEnd(cost_ok) /\ UNCHANGED not_pl_vars
  \/ PlusReturn /\ UNCHANGED not_pl_vars

InitPlus ==
  PlusInit /\ CGIdle /\ EvIdle /\ FSIdle /\ CgnrIdle /\ TRIdle /\ PSIdle
  /\ QRIdle /\ MKLIdle

SpecPlus == InitPlus /\ [][PlusNext]_vars

QRNext ==
  \E num_rows \in 1..MaxNumRows, num_cols \in 1..MaxNumCols, has_D \in BOOLEAN :
    \E b \in QRVectors(num_rows) :
      DenseQRSolverSolveImpl(num_rows, num_cols, has_D, b)
      /\ UNCHANGED not_qr_vars

InitDenseQR ==
  QRInit /\ CGIdle /\ EvIdle /\ FSIdle /\ CgnrIdle /\ TRIdle /\ PSIdle
  /\ PlusIdle /\ MKLIdle

SpecDenseQR == InitDenseQR /\ [][QRNext]_vars

MKLNext ==
  \E reorder_ok \in BOOLEAN, factorize_ok \in BOOLEAN, dies \in BOOLEAN :
    MKLSparseCholeskyFactorize(reorder_ok, factorize_ok, dies)
    /\ UNCHANGED not_mkl_vars

InitMKL ==
  MKLInit /\ CGIdle /\ EvIdle /\ FSIdle /\ CgnrIdle /\ TRIdle /\ PSIdle
  /\ PlusIdle /\ QRIdle

SpecMKL == InitMKL /\ [][MKLNext]_vars

(***************************************************************************)
(* Claims about ConjugateGradientsSolver, checked under SpecCG.            *)
(***************************************************************************)
Returned == cg_pc = "returned"

RhsIsZero == SquaredNorm(rhs) = Zero

\* C1: when the norm of rhs is 0 the call returns with solution set to the
\* zero vector, termination_type SUCCESS and num_iterations 0, and has made
\* no lhs or preconditioner multiply.
C1_ZeroRhs ==
  (Returned /\ RhsIsZero) =>
    /\ solution = <<Zero, Zero>>
    /\ summary.termination_type = "SUCCESS"
    /\ summary.num_iterations = 0
    /\ num_multiplies = 0

C1_Witness ==
  Returned /\ RhsIsZero /\ solution_in # <<Zero, Zero>>

\* C2: an iteration that computed p'q <= 0 or p'q infinite is the last one,
\* and the summary then says NO_CONVERGENCE.
C2_IndefiniteIsNoConvergence ==
  (last.pq # NotComputed /\ (Leq(last.pq, Zero) \/ IsInf(last.pq))) =>
    /\ Returned
    /\ summary.num_iterations = last.n
    /\ summary.termination_type = "NO_CONVERGENCE"

C2_Witness ==
  Returned /\ last.pq = Zero /\ summary.termination_type = "NO_CONVERGENCE"

\* C3: an iteration in which rho is zero or infinite, or (after the first
\* iteration) beta is zero or infinite, is the last one, and the summary
\* then says FAILURE.
C3_RhoBetaBreakdownIsFailure ==
  LET bad(x) == x = Zero \/ x = PosInf \/ x = NegInf IN
  (last.n >= 1 /\ (bad(last.rho) \/ (last.n > 1 /\ bad(last.beta)))) =>
    /\ Returned
    /\ summary.num_iterations = last.n
    /\ summary.termination_type = "FAILURE"

C3_Witness ==
  Returned /\ last.n = 2 /\ IsInf(last.beta) /\ ~IsInf(last.rho)
    /\ summary.termination_type = "FAILURE"

MaxOf(a, b) == IF a >= b THEN a ELSE b

\* C4 as stated: the number of iterations performed never exceeds
\* max_num_iterations, for every max_num_iterations >= 0.
C4_Original ==
  Returned => summary.num_iterations <= options.max_num_iterations

\* C4 as amended: the loop body runs before the bound is tested, so the
\* number of iterations never exceeds max_num_iterations when that is >= 1
\* and never exceeds 1 when it is 0; a run that leaves the loop through the
\* bound test reports NO_CONVERGENCE, "Maximum number of iterations
\* reached.".
C4_IterationBound ==
  /\ summary.num_iterations <= MaxOf(1, options.max_num_iterations)
  /\ (Returned /\ last.exit = "max") =>
       /\ summary.termination_type = "NO_CONVERGENCE"
       /\ summary.message = "Maximum number of iterations reached."
       /\ summary.num_iterations = MaxOf(1, options.max_num_iterations)

C4_Witness ==
  /\ Returned /\ last.exit = "max"
  /\ options.max_num_iterations = 2
  /\ summary.num_iterations = 2

\* C5: with a non-zero rhs a SUCCESS summary never has num_iterations below
\* min_num_iterations.
C5_NoSuccessBeforeMinIterations ==
  (Returned /\ ~RhsIsZero /\ summary.termination_type = "SUCCESS") =>
    summary.num_iterations >= options.min_num_iterations

C5_Witness ==
  /\ Returned /\ ~RhsIsZero /\ summary.termination_type = "SUCCESS"
  /\ options.min_num_iterations = 2
  /\ summary.num_iterations = 2

\* lhs is symmetric positive definite (2 x 2: finite entries, symmetric,
\* positive leading minors)
IsSPD(A) ==
  /\ \A i \in 1..2 : \A j \in 1..2 : IsFinite(A[i][j])
  /\ A[1][2] = A[2][1]
  /\ Lt(Zero, A[1][1])
  /\ Lt(Zero, Sub(Mul(A[1][1], A[2][2]), Mul(A[1][2], A[2][1])))

EvReturned == ev_pc = "returned"

\* the residual blocks whose results thread t stored in the current call
EvaluatedBy(t) == {evaluated[t][k] : k \in 1..Len(evaluated[t])}

AllEvaluated == UNION {EvaluatedBy(t) : t \in 1..num_threads}

\* C7: Evaluate returns false whenever an invoked residual block's Evaluate
\* returned false, whatever the number of threads and their interleaving, and
\* it returns true only if every residual block of the program was evaluated
\* and succeeded.
C7_AnyFailureReturnsFalse ==
  EvReturned =>
    /\ (invoked \cap call.fail # {}) => ~ev_result
    /\ ev_result => /\ invoked = BlockIds
                    /\ AllEvaluated = BlockIds
                    /\ call.fail \cap BlockIds = {}

\* a call on two threads or more in which block 2 failed, another block had
\* its results stored and a third one was skipped
C7_Witness ==
  /\ EvReturned
  /\ num_threads > 1
  /\ 2 \in invoked \cap call.fail
  /\ ~ev_result
  /\ AllEvaluated # {}
  /\ invoked # BlockIds

\* the residuals of the blocks i, i+1, ... one after the other
RECURSIVE ConcatResiduals(_, _)
ConcatResiduals(i, state) ==
  IF i > NumResidualBlocks THEN <<>>
  ELSE BlockResiduals(i, state) \o ConcatResiduals(i + 1, state)

\* the Jacobian rows of the blocks i, i+1, ..., one column per effective
\* parameter
RECURSIVE ConcatJacobians(_)
ConcatJacobians(i) ==
  IF i > NumResidualBlocks THEN <<>>
  ELSE LET b == ResidualBlocks[i] IN
       [k \in 1..NumResidualsOf(i) |->
          [c \in 1..NumEffectiveParameters |->
             SumInts([j \in 1..NumParameterBlocksOf(i) |->
               IF ~ParameterBlocks[b.parameter_blocks[j]].is_constant
                  /\ ParameterBlocks[b.parameter_blocks[j]].delta_offset + 1 = c
                 THEN b.jacobians[k][j] ELSE 0])]]
       \o ConcatJacobians(i + 1)

\* the block costs added in the order of the residual blocks
InOrderCost(state) ==
  FlSum(0, [i \in BlockIds |-> BlockCost(i, state)])

\* the block costs added per thread in the order the thread stored them, and
\* the per-thread sums added in the order of the threads
CostOfAssignment(ev, state) ==
  FlSum(0, [t \in 1..Len(ev) |->
              FlSum(0, [k \in 1..Len(ev[t]) |-> BlockCost(ev[t][k], state)])])

ResidualsAndJacobianAsLaidOut ==
  /\ call.request.residuals => residuals = ConcatResiduals(1, call.state)
  /\ call.request.jacobian => jacobian = ConcatJacobians(1)

\* no two residual blocks share a row of the residual vector or the Jacobian
RangesDisjoint ==
  \A i, j \in BlockIds :
    i < j => ResidualLayout(i) + NumResidualsOf(i) <= ResidualLayout(j)

\* every sum of block costs at the state is a number that needs no rounding
SumsAreExact(state) ==
  \A S \in SUBSET BlockIds :
    LET x == SumInts([i \in BlockIds |->
                        IF i \in S THEN BlockCost(i, state) ELSE 0])
    IN Round(x) = x

\* C8 as stated: when every residual block succeeds, the returned cost, the
\* residual vector and the Jacobian are the same for every assignment of
\* residual blocks to threads and every interleaving, hence equal to those
\* of one thread taking the blocks in order.
C8_Original ==
  (EvReturned /\ ev_result) =>
    /\ cost = InOrderCost(call.state)
    /\ ResidualsAndJacobianAsLaidOut

\* C8, amended: when every residual block succeeds, the residual vector and
\* the Jacobian are the same for every assignment and interleaving, no two
\* blocks sharing a row; the cost is determined by which blocks each thread
\* summed and in which order, whatever the interleaving of the threads, and
\* is the same for every assignment when no sum of block costs rounds.
C8_DeterministicUpToSummationOrder ==
  (EvReturned /\ ev_result) =>
    /\ ResidualsAndJacobianAsLaidOut
    /\ RangesDisjoint
    /\ cost = CostOfAssignment(evaluated, call.state)
    /\ SumsAreExact(call.state) => cost = InOrderCost(call.state)

\* a successful call for residuals and Jacobian whose blocks were spread over
\* two threads, with a cost other than the in-order sum
C8_Witness ==
  /\ EvReturned /\ ev_result
  /\ call.request.residuals /\ call.request.jacobian
  /\ num_threads > 1
  /\ EvaluatedBy(1) # {} /\ EvaluatedBy(2) # {}
  /\ cost # InOrderCost(call.state)

\* J'r summed over all residual blocks at a state, per effective parameter
ExpectedGradient(state) ==
  [c \in 1..NumEffectiveParameters |->
     SumInts([i \in BlockIds |->
       SumInts([j \in 1..NumParameterBlocksOf(i) |->
         LET pb == ParameterBlocks[ResidualBlocks[i].parameter_blocks[j]] IN
         IF ~pb.is_constant /\ pb.delta_offset + 1 = c
           THEN SumInts([k \in 1..NumResidualsOf(i) |->
                  BlockResiduals(i, state)[k] * ResidualBlocks[i].jacobians[k][j]])
           ELSE 0])])]

\* C9: in any sequence of calls on one evaluator, the cost and the gradient
\* returned by a successful call are the sums, over all residual blocks, of
\* the block costs (as the threads of this call added them) and of J'r at the
\* state of this call, whatever the earlier calls did.
C9_OutputsDependOnThisCallOnly ==
  (EvReturned /\ ev_result) =>
    /\ cost = CostOfAssignment(evaluated, call.state)
    /\ call.request.gradient => gradient = ExpectedGradient(call.state)

(***************************************************************************)
(* Claims about FactorAndSolve, checked under SpecFactorAndSolve.          *)
(***************************************************************************)
\* the results of the calls of a method in the current FactorAndSolve
ResultsOf(method) ==
  {fs_log[k].returned : k \in {m \in 1..Len(fs_log) : fs_log[m].method = method}}

\* C10: FactorAndSolve of DenseQR, SparseCholesky and RefinedSparseCholesky
\* calls Solve only if Factorize returned SUCCESS; when Factorize returns
\* anything else, Solve is not called and FactorAndSolve returns what
\* Factorize returned.
C10_SolveOnlyAfterSuccessfulFactorize ==
  fs_method = "FactorAndSolve" =>
    /\ ResultsOf("Solve") # {} => ResultsOf("Factorize") = {"SUCCESS"}
    /\ (fs_pc = "returned" /\ ResultsOf("Factorize") # {"SUCCESS"}) =>
         /\ ResultsOf("Solve") = {}
         /\ ResultsOf("Factorize") = {fs_result}

\* a RefinedSparseCholesky whose FactorAndSolve returned after a
\* factorization that did not succeed
C10_Witness ==
  /\ fs_kind = "RefinedSparseCholesky"
  /\ fs_method = "FactorAndSolve"
  /\ fs_pc = "returned"
  /\ fs_log = <<[method |-> "Factorize", returned |-> "FAILURE"]>>
  /\ fs_result = "FAILURE"

\* the number of calls of a method made in the current call on the object
CallsOf(method) ==
  Cardinality({k \in 1..Len(fs_log) : fs_log[k].method = method})

\* C11: RefinedSparseCholesky invokes IterativeRefiner::Refine exactly once
\* in a FactorAndSolve whose Factorize and Solve both returned SUCCESS, and
\* never during StorageType, during Factorize alone or during a
\* FactorAndSolve whose factorization did not succeed.
C11_RefineOnceAfterSuccessOnly ==
  /\ ( /\ fs_kind = "RefinedSparseCholesky"
       /\ fs_method = "FactorAndSolve" /\ fs_pc = "returned"
       /\ ResultsOf("Factorize") = {"SUCCESS"}
       /\ ResultsOf("Solve") = {"SUCCESS"} )
     => CallsOf("Refine") = 1
  /\ fs_method \in {"StorageType", "Factorize"} => CallsOf("Refine") = 0
  /\ (fs_method = "FactorAndSolve" /\ ResultsOf("Factorize") # {"SUCCESS"})
     => CallsOf("Refine") = 0

\* a RefinedSparseCholesky that refined in a FactorAndSolve, after a call of
\* Factorize alone
C11_Witness ==
  /\ fs_kind = "RefinedSparseCholesky"
  /\ fs_calls > 1
  /\ fs_method = "FactorAndSolve" /\ fs_pc = "returned"
  /\ CallsOf("Refine") = 1
  /\ fs_result = "SUCCESS"

(***************************************************************************)
(* Claims about CgnrSolver and CudaCgnrSolver, checked under SpecCgnr.     *)
(***************************************************************************)
\* C12: an unsupported preconditioner type is rejected when the solver is
\* constructed: the constructor of CgnrSolver aborts for every type other
\* than JACOBI, IDENTITY and SUBSET, CudaCgnrSolver::Create returns nullptr
\* with an error message for every type other than IDENTITY, and SolveImpl
\* is only reached on a solver whose preconditioner type is supported.
C12_UnsupportedPreconditionerRejectedAtConstruction ==
  /\ (cgnr_kind = "CgnrSolver"
      /\ cgnr_options.preconditioner_type \notin {"JACOBI", "IDENTITY", "SUBSET"})
     => cgnr_pc = "aborted"
  /\ (cgnr_kind = "CudaCgnrSolver" /\ cgnr_pc = "constructed")
     => cgnr_options.preconditioner_type = "IDENTITY"
  /\ (cgnr_kind = "CudaCgnrSolver" /\ cgnr_pc = "nullptr") => cgnr_error # ""
  /\ cgnr_summaries # <<>> =>
       /\ cgnr_pc = "constructed"
       /\ cgnr_kind = "CgnrSolver" =>
            cgnr_options.preconditioner_type \in {"JACOBI", "IDENTITY", "SUBSET"}
       /\ cgnr_kind = "CudaCgnrSolver" =>
            cgnr_options.preconditioner_type = "IDENTITY"

\* a CudaCgnrSolver::Create that was asked for JACOBI
C12_Witness ==
  /\ cgnr_kind = "CudaCgnrSolver"
  /\ cgnr_pc = "nullptr"
  /\ cgnr_error = "CudaCgnrSolver does not support preconditioner type"
  /\ cgnr_summaries = <<>>

(***************************************************************************)
(* Claims about Solve with the trust-region minimizer, checked under       *)
(* SpecTrustRegion.                                                        *)
(***************************************************************************)
\* C13: a trust-region Solve of a problem without residual blocks (without
\* parameter blocks at all, or with parameter blocks and no residuals) never
\* enters the iteration loop and never invokes a cost function or the
\* evaluation callback; it ends with the termination type CONVERGENCE and
\* the message "Function tolerance reached. No non-constant parameter blocks
\* found."
C13_DegenerateProblemConvergesBeforeTheLoop ==
  tr_problem.residual_blocks = <<>> =>
    /\ tr_pc \in {"start", "terminated"}
    /\ tr_events = <<>>
    /\ tr_iteration = 0
    /\ tr_last_step = NoStep
    /\ tr_x = tr_x_initial
    /\ tr_pc = "terminated" =>
         /\ tr_summary.termination_type = "CONVERGENCE"
         /\ tr_summary.message =
              "Function tolerance reached. No non-constant parameter blocks found."

\* the Solve of TrustRegionProblemHasZeroResiduals has returned
C13_Witness ==
  /\ tr_problem = [parameter_blocks |-> <<[constant |-> FALSE]>>,
                   residual_blocks |-> <<>>]
  /\ tr_pc = "terminated"
  /\ tr_summary.termination_type = "CONVERGENCE"
  /\ tr_events = <<>>

\* the parameter blocks some residual block depends on
UsedBlocks(problem) ==
  { b \in 1..Len(problem.parameter_blocks) : IsUsed(problem, b) }

\* C14: Solve never changes the value of a constant parameter block, neither
\* in the current point nor in a candidate point; and when every parameter
\* block that a residual depends on is constant, Solve ends with CONVERGENCE
\* and with initial_cost and final_cost both equal to the cost of the
\* residuals at the initial point, which is 1/2 for the single residual of
\* value 1 of TrustRegionProblemIsConstant.
C14_ConstantBlocksKeptAndConstantProblemCostReported ==
  /\ \A b \in 1..Len(tr_problem.parameter_blocks) :
        tr_problem.parameter_blocks[b].constant =>
          /\ tr_x[b] = tr_x_initial[b]
          /\ tr_candidate[b] = tr_x_initial[b]
  /\ ( /\ tr_pc = "terminated"
       /\ tr_problem.residual_blocks # <<>>
       /\ \A b \in UsedBlocks(tr_problem) : tr_problem.parameter_blocks[b].constant )
     => /\ tr_summary.termination_type = "CONVERGENCE"
        /\ tr_summary.initial_cost = tr_summary.final_cost
        /\ tr_summary.initial_cost =
             HalfSquaredNorm(tr_problem, tr_x_initial, UsedBlocks(tr_problem))
        /\ tr_problem.residual_blocks = <<1>> => tr_summary.initial_cost = <<1, 2>>

\* a Solve that moved the varying block of a problem with a constant block on
\* which a residual depends has returned
C14_Witness ==
  /\ Len(tr_problem.parameter_blocks) = 2
  /\ tr_pc = "terminated"
  /\ tr_x[1] # tr_x_initial[1]
  /\ tr_x[2] = 1
  /\ Lt(tr_summary.final_cost, tr_summary.initial_cost)


EndedByRejections ==
  /\ tr_pc = "terminated"
  /\ tr_num_consecutive_rejections >= tr_options.max_num_consecutive_rejections
  /\ tr_summary.message =
       "the maximum number of consecutive rejected steps was reached"

\* the step of the most recent linear solve, whose summary was FAILURE
AfterLinearSolverFailure ==
  tr_last_step.linear_solver = "FAILURE" /\ tr_last_step.evaluation = "none"

AfterFailedCandidateEvaluation ==
  tr_last_step.linear_solver # "none" /\ tr_last_step.evaluation = "failed"

RECURSIVE SpsePower(_, _)
SpsePower(q, k) == IF k = 0 THEN One ELSE Mul(q, SpsePower(q, k - 1))

\* the sum of the terms 0..n of the series applied to 1
RECURSIVE SpsePartialSum(_, _)
SpsePartialSum(q, n) ==
  IF n = 0 THEN One ELSE Add(SpsePartialSum(q, n - 1), SpsePower(q, n))

\* C19: RightMultiply never adds more than max_iterations terms to the first
\* one, whatever the tolerance; when it returns it has added n terms with
\* min_iterations <= n <= max_iterations, y is the sum of the series up to
\* the term n, and n is the first number from min_iterations on at which the
\* term added was below the tolerance times the norm of the first term, or
\* n is max_iterations.
C19_StopsBetweenMinAndMaxIterations ==
  /\ ps_i <= ps_options.max_num_spse_iterations
  /\ ps_pc = "returned" =>
       /\ ps_options.min_num_spse_iterations <= ps_i
       /\ Len(ps_below) = ps_i
       /\ ps_y = SpsePartialSum(ps_operator, ps_i)
       /\ ps_i = ps_options.max_num_spse_iterations \/ ps_below[ps_i]
       /\ \A k \in ps_options.min_num_spse_iterations..(ps_i - 1) : ~ps_below[k]

\* a RightMultiply that stopped on the tolerance, after the minimum and
\* before the maximum number of iterations
C19_Witness ==
  /\ ps_pc = "returned"
  /\ ps_options.min_num_spse_iterations = 1
  /\ ps_options.max_num_spse_iterations = 4
  /\ ps_operator = <<1, 2>>
  /\ ps_i = 3
  /\ ps_below = <<FALSE, FALSE, TRUE>>
  /\ ps_y = <<15, 8>>


(***************************************************************************)
(* Further claims about ConjugateGradientsSolver, checked under SpecCG.    *)
(***************************************************************************)
\* C21: every iteration i of the loop that gets as far as the update of the
\* solution recomputes r as rhs - lhs * solution, with one more product by
\* lhs, when i is a multiple of residual_reset_period, and otherwise sets r
\* to r - alpha * q with q = lhs * p and no further product.
C21_ResidualResetEveryPeriod ==
  [][ ( /\ cg_pc = "loop"
        /\ last'.exit \notin {"rho", "beta", "indefinite", "alpha"} )
      => LET i == summary.num_iterations
             multiple == (i % options.residual_reset_period = 0)
             q == RightMultiply(lhs, p', SetZero(p'))
         IN /\ last'.n = i
            /\ last'.reset = multiple
            /\ r' = IF multiple
                      THEN VecSub(rhs, RightMultiply(lhs, solution', SetZero(rhs)))
                      ELSE VecSub(r, Scale(last'.alpha, q))
            /\ num_multiplies' = num_multiplies + (IF multiple THEN 3 ELSE 2)
    ]_vars

\* a call with residual_reset_period = 2 that updated r incrementally in
\* iteration 1 (two products) and recomputed it in iteration 2 (three), after
\* the product of the part before the loop
C21_Witness ==
  /\ options.residual_reset_period = 2
  /\ last.n = 2
  /\ last.reset
  /\ last.exit \notin {"rho", "beta", "indefinite", "alpha"}
  /\ num_multiplies = 1 + 2 + 3
  /\ r = VecSub(rhs, RightMultiply(lhs, solution, SetZero(rhs)))


\* C26: an iteration in which rho or (after the first iteration) beta is
\* zero or infinite, p'q is not positive or infinite, or alpha is infinite,
\* is the last one, ends in FAILURE or NO_CONVERGENCE and does not modify
\* solution: the solution returned is the one the iteration started with,
\* which in iteration 1 is the solution the caller passed.
C26_BreakdownKeepsSolution ==
  LET bad(x) == x = Zero \/ x = PosInf \/ x = NegInf
      breakdown ==
        \/ bad(last.rho)
        \/ last.n > 1 /\ bad(last.beta)
        \/ last.pq # NotComputed /\ (Leq(last.pq, Zero) \/ IsInf(last.pq))
        \/ last.alpha = PosInf \/ last.alpha = NegInf
  IN (last.n >= 1 /\ breakdown) =>
       /\ Returned
       /\ summary.num_iterations = last.n
       /\ summary.termination_type \in {"FAILURE", "NO_CONVERGENCE"}
       /\ solution = last.solution_before
       /\ last.n = 1 => solution = solution_in

\* a call that moved the solution in iteration 1 and returned it from the
\* iteration 2, in which p'q was not positive
C26_Witness ==
  /\ Returned
  /\ last.n = 2
  /\ last.pq # NotComputed
  /\ Leq(last.pq, Zero)
  /\ summary.termination_type = "NO_CONVERGENCE"
  /\ solution = last.solution_before
  /\ solution # solution_in


(***************************************************************************)
(* Claims about the preconditioner of CgnrSolver, checked under SpecCgnr.  *)
(***************************************************************************)
\* C22: over any sequence of solves on one CgnrSolver, a JACOBI or SUBSET
\* preconditioner is constructed in the first solve only and is the object
\* used afterwards, its Update is called in every solve before the conjugate
\* gradients solver is invoked, and with IDENTITY no preconditioner is ever
\* constructed or updated.
C22_PreconditionerConstructedOnceUpdatedEverySolve ==
  cgnr_kind = "CgnrSolver" =>
    /\ Len(cgnr_calls) = Len(cgnr_summaries)
    /\ \A k \in 1..Len(cgnr_calls) :
         LET type == cgnr_options.preconditioner_type
             class == IF type = "JACOBI" THEN "BlockJacobiPreconditioner"
                                          ELSE "SubsetPreconditioner"
         IN /\ type \in {"JACOBI", "SUBSET"} =>
                 /\ cgnr_preconditioner = class
                 /\ cgnr_calls[k] =
                      IF k = 1
                        THEN <<class, "Update", "ConjugateGradientsSolver::Solve">>
                        ELSE <<"Update", "ConjugateGradientsSolver::Solve">>
            /\ type = "IDENTITY" =>
                 /\ cgnr_preconditioner = "nullptr"
                 /\ cgnr_calls[k] = <<"ConjugateGradientsSolver::Solve">>

\* a SUBSET solver after three solves
C22_Witness ==
  /\ cgnr_kind = "CgnrSolver"
  /\ cgnr_options.preconditioner_type = "SUBSET"
  /\ Len(cgnr_calls) = 3
  /\ cgnr_calls[1][1] = "SubsetPreconditioner"
  /\ cgnr_calls[3] = <<"Update", "ConjugateGradientsSolver::Solve">>
  /\ cgnr_preconditioner = "SubsetPreconditioner"


\* C27: every step of ProgramEvaluator::Evaluate other than a return of true
\* leaves the caller's cost and the caller's gradient array as they are, so
\* a call that returns false (the state could not be set, or a residual
\* block failed) returns with both exactly as they were before the call.
C27_FailedEvaluateLeavesCostAndGradient ==
  [][ ~(ev_pc' = "returned" /\ ev_result')
        => (cost' = cost /\ gradient' = gradient) ]_vars

\* a second call that asked for the gradient and returned false because
\* block 2 failed, after a first call that had stored a cost and a gradient
C27_Witness ==
  /\ EvReturned
  /\ ~ev_result
  /\ num_calls = 2
  /\ call.request.gradient
  /\ 2 \in invoked \cap call.fail
  /\ AllEvaluated # {}
  /\ cost # -1
  /\ gradient # [c \in 1..NumEffectiveParameters |-> -1]


(***************************************************************************)
(* Claims about ProgramEvaluator::Plus, checked under SpecPlus.            *)
(***************************************************************************)
PlusReturnedTrue == pl_pc = "returned" /\ pl_result

\* C28: when Plus with optimize_e_blocks returns true, the index and the
\* delta_offset of every parameter block are what they were before the call
\* and every block at a position >= num_eliminate_blocks, made constant for
\* the inner solves, is varying again; during the inner solve of a block
\* only that block has index 0 and delta_offset 0 in place of its own.
C28_PlusRestoresIndexOffsetAndVarying ==
  LET n == pl_options.num_eliminate_blocks
      same(k) == /\ pl_blocks[k].index = pl_before[k].index
                 /\ pl_blocks[k].delta_offset = pl_before[k].delta_offset
  IN /\ PlusReturnedTrue =>
          \A k \in 1..Len(pl_blocks) :
            /\ same(k)
            /\ (pl_options.optimize_e_blocks /\ k - 1 >= n)
                 => ~pl_blocks[k].is_constant
     /\ pl_pc = "loop" => \A k \in 1..Len(pl_blocks) : same(k)
     /\ pl_pc = "solving" =>
          \A k \in 1..Len(pl_blocks) :
            /\ k # pl_i + 1 => same(k)
            /\ k = pl_i + 1 => /\ pl_blocks[k].index = 0
                               /\ pl_blocks[k].delta_offset = 0
            /\ k - 1 >= n => pl_blocks[k].is_constant

\* a call that eliminated two of three blocks has returned true: the second
\* block has its index 1 back, the third was given its state and is varying
C28_Witness ==
  /\ PlusReturnedTrue
  /\ pl_options.optimize_e_blocks
  /\ pl_options.num_eliminate_blocks = 2
  /\ Len(pl_blocks) = 3
  /\ Len(pl_inner) = 2
  /\ pl_blocks[2].index = 1
  /\ pl_blocks[2].delta_offset > 0
  /\ pl_blocks[3].state # -1
  /\ ~pl_blocks[3].is_constant

\* the residual blocks of the program that depend on parameter block i
ResidualBlocksOf(program, i) ==
  {rb \in 1..Len(program.residual_blocks) :
     \E j \in 1..Len(program.residual_blocks[rb]) :
       program.residual_blocks[rb][j] = i}

\* the eliminated block residual block rb depends on, n + 1 when on none
EBlockOf(program, n, rb) ==
  IF \E i \in 1..n : rb \in ResidualBlocksOf(program, i)
    THEN CHOOSE i \in 1..n : rb \in ResidualBlocksOf(program, i)
    ELSE n + 1

\* every residual block depends on at most one of the first n parameter
\* blocks, and the residual blocks are in the order of these blocks, those
\* that depend on none last
OrderedByEBlock(program, n) ==
  /\ \A rb \in 1..Len(program.residual_blocks) :
       Cardinality({i \in 1..n : rb \in ResidualBlocksOf(program, i)}) <= 1
  /\ \A rb, sb \in 1..Len(program.residual_blocks) :
       rb < sb => EBlockOf(program, n, rb) <= EBlockOf(program, n, sb)

\* the inner programs formed so far each hold their block and exactly the
\* residual blocks that depend on it, in disjoint ranges within the list
InnerProgramsAreTheBlocksOwn ==
  \A m \in 1..Len(pl_inner) :
    LET copied == {pl_inner[m].residual_blocks[k] :
                     k \in 1..Len(pl_inner[m].residual_blocks)}
    IN /\ pl_inner[m].parameter_block = m
       /\ copied \subseteq 1..Len(pl_program.residual_blocks)
       /\ copied = ResidualBlocksOf(pl_program, m)
       /\ \A l \in 1..(m - 1) :
            copied \cap {pl_inner[l].residual_blocks[k] :
                           k \in 1..Len(pl_inner[l].residual_blocks)} = {}

\* C29 as stated, for every program: the inner program solved for block i
\* holds block i and exactly the residual blocks that reference block i, and
\* the ranges of different blocks are disjoint and within the list.
C29_Original == InnerProgramsAreTheBlocksOwn

\* C29: for a program whose residual blocks each depend on at most one
\* eliminated block and are ordered by that block, the inner program solved
\* for block i holds block i and exactly the residual blocks that reference
\* block i, and the ranges taken for different blocks are disjoint and lie
\* within the residual block list.
C29_InnerProgramOfOrderedProgram ==
  OrderedByEBlock(pl_program, pl_options.num_eliminate_blocks)
    => InnerProgramsAreTheBlocksOwn

\* the two inner programs of the ordered program: residual blocks 1 and 2
\* for the first block, residual block 3 for the second
C29_Witness ==
  /\ PlusReturnedTrue
  /\ pl_options.num_eliminate_blocks = 2
  /\ OrderedByEBlock(pl_program, 2)
  /\ Len(pl_inner) = 2
  /\ pl_inner[1].residual_blocks = <<1, 2>>
  /\ pl_inner[2].residual_blocks = <<3>>
  /\ Len(pl_program.residual_blocks) = 4


\* C24: in the trust-region loop a rejected step leaves the current
\* parameter state and the cost as they were before the step was proposed
\* and only shrinks the radius, and the number of consecutive rejections
\* never exceeds the configured maximum.
C24_RejectedStepKeepsStateAndShrinksRadius ==
  /\ [](tr_num_consecutive_rejections
          <= tr_options.max_num_consecutive_rejections)
  /\ [][ /\ tr_pc = "compute_step" =>
              /\ tr_x' = tr_x
              /\ tr_cost' = tr_cost
         /\ tr_num_consecutive_rejections'
              = tr_num_consecutive_rejections + 1 =>
              /\ tr_last_step'.outcome = "rejected"
              /\ tr_x' = tr_x
              /\ tr_cost' = tr_cost
              /\ tr_iteration' = tr_iteration
              /\ Lt(Zero, tr_radius')
              /\ Lt(tr_radius', tr_radius)
         /\ tr_last_step'.outcome # "rejected" =>
              tr_num_consecutive_rejections' <= tr_num_consecutive_rejections
     ]_vars

\* two rejected steps in a row, the configured maximum, after an accepted
\* step: the radius grew once and shrank twice
C24_Witness ==
  /\ tr_options.max_num_consecutive_rejections = 2
  /\ tr_num_consecutive_rejections = 2
  /\ tr_last_step.outcome = "rejected"
  /\ tr_iteration = 1
  /\ tr_x # tr_x_initial
  /\ tr_radius = Num(1, 2)
  /\ tr_pc = "terminated"


(***************************************************************************)
(* Claims about DenseQRSolver::SolveImpl, checked under SpecDenseQR.       *)
(***************************************************************************)
\* C23: in every call of any sequence of SolveImpl calls on one solver, with
\* or without D and whatever the shapes of the matrices, the right-hand
\* side handed to the QR solve is [b; 0]: its first num_rows entries are b
\* and every entry after them is zero.
C23_RhsIsBThenZeros ==
  qr_calls > 0 =>
    /\ Len(qr_rhs) = qr_last.lhs_rows
    /\ \A k \in 1..Len(qr_rhs) :
         qr_rhs[k] = IF k <= qr_last.num_rows THEN qr_last.b[k] ELSE 0

\* a second call with D on a matrix of fewer rows, whose augmented size is
\* the size rhs_ already has
C23_StaleEntries ==
  /\ qr_calls = 2
  /\ qr_last.D
  /\ qr_last.num_rows < Len(qr_rhs)
  /\ \E k \in (qr_last.num_rows + 1)..Len(qr_rhs) : qr_rhs[k] # 0


(***************************************************************************)
(* Claims about MKLSparseCholesky and MKLPardiso, checked under SpecMKL.   *)
(***************************************************************************)
\* call k ran the function named f
MKLRan(k, f) == \E j \in 1..Len(mkl_calls[k].ran) : mkl_calls[k].ran[j] = f

\* the structure definition and the reordering both succeeded in call k
MKLAnalysedIn(k) == MKLRan(k, "Reorder") /\ mkl_calls[k].reorder_ok

\* C25: over any sequence of MKLSparseCholesky::Factorize calls on one
\* object, structure definition and reordering are run by each call until
\* both have succeeded once and by no call after that; a failure returns
\* FATAL_ERROR and leaves the object un-analysed; SUCCESS is returned only
\* by a call whose own numeric factorization succeeded.
C25_AnalysisUntilItSucceededOnce ==
  mkl_pc = "ready" =>
    /\ analyzed_ = (\E j \in 1..Len(mkl_calls) : MKLAnalysedIn(j))
    /\ \A k \in 1..Len(mkl_calls) :
         LET before == \E j \in 1..(k - 1) : MKLAnalysedIn(j)
             made == mkl_calls[k]
         IN /\ MKLRan(k, "DefineStructure") = (~before)
            /\ MKLRan(k, "Reorder") = (~before)
            /\ (made.returned = "FATAL_ERROR")
                 = (MKLRan(k, "Reorder") /\ ~made.reorder_ok)
            /\ made.returned = "FATAL_ERROR" => ~MKLRan(k, "Factorize")
            /\ made.returned = "SUCCESS"
                 => MKLRan(k, "Factorize") /\ made.factorize_ok
            /\ made.returned # "SUCCESS"
                 => ~(MKLRan(k, "Factorize") /\ made.factorize_ok)

\* a failed reordering, then an analysis followed by a failed numeric
\* factorization, then a call that only factorizes and succeeds
C25_Witness ==
  /\ mkl_pc = "ready"
  /\ Len(mkl_calls) = 3
  /\ mkl_calls[1].returned = "FATAL_ERROR"
  /\ mkl_calls[2].ran = <<"DefineStructure", "Reorder", "Factorize">>
  /\ mkl_calls[2].returned = "FAILURE"
  /\ mkl_calls[3].ran = <<"Factorize">>
  /\ mkl_calls[3].returned = "SUCCESS"
  /\ analyzed_

\* the number of values the pairs of a remap table stand for
RECURSIVE EntryCount(_)
EntryCount(permutation) ==
  IF permutation = <<>> THEN 0
  ELSE (IF Head(permutation)[1] = -1 THEN 1 ELSE Head(permutation)[2])
       + EntryCount(Tail(permutation))

\* row (from 0) of the output structure
OutputRow(row) ==
  SubSeq(cols_out_, rows_out_[row + 1] + 1, rows_out_[row + 2])

\* the entries of a row of the input with column >= row, after the diagonal
\* column when the row does not have it
ExpectedOutputRow(m, row) ==
  LET kept == SelectSeq(m[row + 1], LAMBDA c : c >= row)
  IN IF kept # <<>> /\ kept[1] = row THEN kept ELSE <<row>> \o kept

\* C30: after any sequence of DefineStructure and Factorize calls on one
\* MKLPardiso with symmetric storage, a DefineStructure repeated after a
\* failed analysis included, the remap table matches the output structure:
\* its entry counts sum to num_nonzeros_, every output row is the diagonal
\* column followed by the entries of the input row with column >= row, and
\* the remap of Factorize writes nothing past the end of values_prem_.
C30_RemapTableMatchesStructure ==
  mkl_calls # <<>> =>
    /\ Len(rows_out_) = Len(mkl_lhs) + 1
    /\ \A row \in 0..(Len(mkl_lhs) - 1) :
         OutputRow(row) = ExpectedOutputRow(mkl_lhs, row)
    /\ requires_remap_ => EntryCount(permutation_) = num_nonzeros_
    /\ mkl_outside = 0
    /\ mkl_pc = "ready"

\* the table after a second analysis stands for twice the values of the
\* structure, and the remap that followed wrote past the end
C30_TableOfTwoAnalyses ==
  /\ Len(mkl_calls) = 2
  /\ mkl_calls[1].returned = "FATAL_ERROR"
  /\ requires_remap_
  /\ EntryCount(permutation_) = 2 * num_nonzeros_
  /\ mkl_outside > 0

=============================================================================
